---------------------------- MODULE Spec2Model ----------------------------
(***************************************************************************)
(* Model of the Tracer solar charger Modbus RTU clients, of the commands   *)
(* of the command line tool and of the Home Assistant sensor decoding.     *)
(*                                                                         *)
(*   src/src/communication/modbus_client.py            ModbusRTUClient     *)
(*   src/homeassistant/.../modbus_client.py            TracerModbusClient  *)
(*   src/src/main.py                                   SolarChargerCLI     *)
(*   src/homeassistant/.../sensor.py, const.py         native_value        *)
(*                                                                         *)
(* Bytes are integers 0..255 and byte strings are sequences of them.       *)
(* Python integers are unbounded, so no operator below wraps silently:     *)
(* struct.pack is the only place a width is enforced, and it raises.       *)
(***************************************************************************)
EXTENDS Integers, Sequences, FiniteSets, TLC

VARIABLES
    fn,         \* pure-function harness: names of the functions applied so far
    arg,        \* pure-function harness: the input drawn by Init
    ret,        \* pure-function harness: function name -> value returned
    client,     \* "cli" (ModbusRTUClient) or "ha" (TracerModbusClient)
    slave_id,   \* self.slave_id
    conn,       \* self.serial_conn: "none", "open" or "closed"
    pc,         \* where the current read/write call stands
    op,         \* the call: its name and arguments
    cmd,        \* the request frame the call built
    tx,         \* the frames the call has written to the serial line
    in_buf,     \* the bytes waiting in the serial input buffer
    unanswered, \* requests on the line the device has not answered yet
    response,   \* the bytes the call read
    parsed,     \* what parse_modbus_response returned to the call
    result,     \* what the call returned (or raised)
    printed,    \* what the call printed or logged
    steps,      \* the serial calls and sleeps of the call, in order
    delay_ms,   \* the argument of time.sleep, in milliseconds
    caught,     \* the exception the call's except clause caught
    cli_pc,     \* where the running CLI command stands
    args,       \* the parsed command line and the files the command reads
    handles,    \* serial ports the process holds open
    wire,       \* every frame the command has written to the serial line
    idx,        \* batch loop: position of the next parameter
    success_count,   \* batch loop: parameters written successfully
    failed_params,   \* batch loop: names of the parameters that failed
    skipped_params,  \* restore loop: names skipped as not writable
    acked,      \* names whose write_single_register returned True
    verify_raw, \* what the last verification read returned
    exit_code,  \* what the command returned, None while it runs
    pauses,     \* the time.sleep calls of the command between its calls
    now,        \* the clock datetime.now() reads
    snapshot,   \* the DeviceSnapshot the running command holds, or None
    assembled,  \* the create_device_snapshot calls: arguments and result
    output,     \* what format_for_output or the export produced
    jobs,       \* Home Assistant executor jobs: where each one stands
    line        \* the writes and reads on the device's serial line

pureVars == <<fn, arg, ret>>
clientVars == <<client, slave_id, conn, pc, op, cmd, tx, in_buf, unanswered,
                response, parsed, result, printed, steps, delay_ms, caught>>
cliVars == <<cli_pc, args, handles, wire, idx, success_count, failed_params,
             skipped_params, acked, verify_raw, exit_code, pauses>>
dataVars == <<now, snapshot, assembled, output>>
haVars == <<jobs, line>>
vars == <<fn, arg, ret, client, slave_id, conn, pc, op, cmd, tx, in_buf,
          unanswered, response, parsed, result, printed, steps, delay_ms,
          caught, cli_pc, args, handles, wire, idx, success_count,
          failed_params, skipped_params, acked, verify_raw, exit_code,
          pauses, now, snapshot, assembled, output, jobs, line>>

---------------------------------------------------------------------------
(* Python integer operators on non-negative integers.                      *)

RECURSIVE BitXor(_, _)
BitXor(a, b) ==
    IF a = 0 THEN b
    ELSE IF b = 0 THEN a
    ELSE (((a % 2) + (b % 2)) % 2) + 2 * BitXor(a \div 2, b \div 2)

RECURSIVE BitAnd(_, _)
BitAnd(a, b) ==
    IF a = 0 \/ b = 0 THEN 0
    ELSE ((a % 2) * (b % 2)) + 2 * BitAnd(a \div 2, b \div 2)

ShiftRight(a, k) == a \div (2 ^ k)

Min(a, b) == IF a <= b THEN a ELSE b

\* Python slice s[lo:hi] on a 0-indexed byte string, for 0 <= lo <= hi;
\* the slice is clamped to the length of s.
Slice(s, lo, hi) ==
    LET top == Min(hi, Len(s))
    IN  IF lo >= top THEN <<>> ELSE SubSeq(s, lo + 1, top)

---------------------------------------------------------------------------
(* struct.pack.  A packed value is [ok |-> TRUE, bytes |-> ...]; a field   *)
(* outside its format's range raises struct.error, [ok |-> FALSE, ...].    *)

Packed(bs) == [ok |-> TRUE, bytes |-> bs]
StructError == [ok |-> FALSE, bytes |-> <<>>]

InB(v) == v \in 0..255
InH(v) == v \in 0..65535

\* struct.pack('<H', v)
pack_le_H(v) ==
    IF InH(v) THEN Packed(<<v % 256, v \div 256>>) ELSE StructError

\* struct.pack('>H', v)
pack_be_H(v) ==
    IF InH(v) THEN Packed(<<v \div 256, v % 256>>) ELSE StructError

\* struct.pack('>BBHH', a, b, c, d)
pack_BBHH(a, b, c, d) ==
    IF InB(a) /\ InB(b) /\ InH(c) /\ InH(d)
    THEN Packed(<<a, b, c \div 256, c % 256, d \div 256, d % 256>>)
    ELSE StructError

\* struct.pack('>BBHHB', a, b, c, d, e)
pack_BBHHB(a, b, c, d, e) ==
    IF InB(a) /\ InB(b) /\ InH(c) /\ InH(d) /\ InB(e)
    THEN Packed(<<a, b, c \div 256, c % 256, d \div 256, d % 256, e>>)
    ELSE StructError

\* mutant: the register word unpacked low byte first
unpack_le_H(bs) == bs[2] * 256 + bs[1]

\* struct.unpack('>H', two bytes)[0]
unpack_be_H(bs) == bs[1] * 256 + bs[2]

---------------------------------------------------------------------------
(* ModbusRTUClient.calculate_crc16                                         *)

CRC_INIT == 65535    \* 0xFFFF
CRC_POLY == 40961    \* 0xA001

\* one pass of the inner loop: "if crc & 0x0001: crc >>= 1; crc ^= 0xA001
\* else: crc >>= 1"
crc_shift(crc) ==
    IF BitAnd(crc, 1) # 0
    THEN BitXor(ShiftRight(crc, 1), CRC_POLY)
    ELSE ShiftRight(crc, 1)

\* "for _ in range(8)"
RECURSIVE crc_bits(_, _)
crc_bits(crc, k) == IF k = 0 THEN crc ELSE crc_bits(crc_shift(crc), k - 1)

\* "for byte in data: crc ^= byte; <inner loop>" over data[lo..hi], the bytes
\* taken left to right.  The loop is unfolded by halves to keep the
\* evaluation shallow on long frames; crc >= 0 always holds, the test makes
\* the accumulator a value before the next byte is folded in.
RECURSIVE crc_bytes(_, _, _, _)
crc_bytes(crc, data, lo, hi) ==
    IF crc >= 0 /\ lo > hi THEN crc
    ELSE IF lo = hi THEN crc_bits(BitXor(crc, data[lo]), 8)
    ELSE LET mid == (lo + hi) \div 2
         IN  crc_bytes(crc_bytes(crc, data, lo, mid), data, mid + 1, hi)

\* the accumulator after the outer loop
crc_accumulator(data) == crc_bytes(CRC_INIT, data, 1, Len(data))

\* mutant: the checksum packed high byte first
calculate_crc16_be(data) == pack_be_H(crc_accumulator(data)).bytes

\* "return struct.pack('<H', crc)"
calculate_crc16(data) == pack_le_H(crc_accumulator(data)).bytes

---------------------------------------------------------------------------
(* TracerModbusClient.calculate_crc16 (Home Assistant client)              *)

HA_CRC_INIT == 65535
HA_CRC_POLY == 40961

HA_crc_shift(crc) ==
    IF BitAnd(crc, 1) # 0
    THEN BitXor(ShiftRight(crc, 1), HA_CRC_POLY)
    ELSE ShiftRight(crc, 1)

RECURSIVE HA_crc_bits(_, _)
HA_crc_bits(crc, k) ==
    IF k = 0 THEN crc ELSE HA_crc_bits(HA_crc_shift(crc), k - 1)

RECURSIVE HA_crc_bytes(_, _, _, _)
HA_crc_bytes(crc, data, lo, hi) ==
    IF crc >= 0 /\ lo > hi THEN crc
    ELSE IF lo = hi THEN HA_crc_bits(BitXor(crc, data[lo]), 8)
    ELSE LET mid == (lo + hi) \div 2
         IN  HA_crc_bytes(HA_crc_bytes(crc, data, lo, mid), data, mid + 1, hi)

HA_crc_accumulator(data) == HA_crc_bytes(HA_CRC_INIT, data, 1, Len(data))

HA_calculate_crc16(data) == pack_le_H(HA_crc_accumulator(data)).bytes

---------------------------------------------------------------------------
(* Python values.  Optional[T]: None is the empty tuple and a value v is   *)
(* the one-element tuple <<v>>, so that None differs from an empty list.   *)
(* A dict is a function from its keys.                                     *)

None == <<>>
Some(v) == <<v>>
IsNone(o) == o = <<>>
The(o) == o[1]

DigitChars == <<"0", "1", "2", "3", "4", "5", "6", "7", "8", "9">>

\* str(n), n >= 0, as f-strings format an int
RECURSIVE IntToStr(_)
IntToStr(n) ==
    IF n < 10 THEN DigitChars[n + 1]
    ELSE IntToStr(n \div 10) \o DigitChars[(n % 10) + 1]

---------------------------------------------------------------------------
(* ModbusRTUClient.get_error_message, parse_modbus_response                *)

error_messages ==
    (1 :> "Illegal Function") @@
    (2 :> "Illegal Data Address") @@
    (3 :> "Illegal Data Value") @@
    (4 :> "Slave Device Failure") @@
    (5 :> "Acknowledge") @@
    (6 :> "Slave Device Busy") @@
    (8 :> "Memory Parity Error")

\* mutant: code 2 and code 3 exchanged in the table
get_error_message_swapped(error_code) ==
    IF error_code = 2 THEN error_messages[3]
    ELSE IF error_code = 3 THEN error_messages[2]
    ELSE IF error_code \in DOMAIN error_messages
    THEN error_messages[error_code]
    ELSE "Unknown Error (" \o IntToStr(error_code) \o ")"

\* error_messages.get(error_code, f"Unknown Error ({error_code})")
get_error_message(error_code) ==
    IF error_code \in DOMAIN error_messages
    THEN error_messages[error_code]
    ELSE "Unknown Error (" \o IntToStr(error_code) \o ")"

\* "for i in range(0, len(data), 2): if i + 1 < len(data): registers.append(
\* struct.unpack('>H', data[i:i+2])[0])", from offset i on
RECURSIVE parse_registers(_, _)
parse_registers(data, i) ==
    IF i >= Len(data) THEN <<>>
    ELSE (IF i + 1 < Len(data)
          THEN <<unpack_be_H(Slice(data, i, i + 2))>>
          ELSE <<>>) \o parse_registers(data, i + 2)

\* mutant: a response whose last two bytes are not the CRC of the bytes
\* before them is not parsed
parse_modbus_response_checked(resp) ==
    IF Len(resp) < 5 THEN None
    ELSE IF SubSeq(resp, Len(resp) - 1, Len(resp))
              # calculate_crc16(SubSeq(resp, 1, Len(resp) - 2))
    THEN None
    ELSE IF BitAnd(resp[2], 128) # 0
    THEN Some([slave_id |-> resp[1],
               function_code |-> BitAnd(resp[2], 127),
               error |-> TRUE,
               error_code |-> resp[3],
               error_message |-> get_error_message(resp[3])])
    ELSE IF resp[2] \in {3, 4}
    THEN Some([slave_id |-> resp[1],
               function_code |-> resp[2],
               error |-> FALSE,
               byte_count |-> resp[3],
               registers |->
                 parse_registers(Slice(resp, 3, 3 + resp[3]), 0)])
    ELSE Some([raw |-> resp])

\* ModbusRTUClient.parse_modbus_response
parse_modbus_response(resp) ==
    IF Len(resp) < 5 THEN None
    ELSE
      LET sid == resp[1]
          function_code == resp[2]
      IN  IF BitAnd(function_code, 128) # 0
          THEN LET error_code == resp[3]
               IN  Some([slave_id |-> sid,
                         function_code |-> BitAnd(function_code, 127),
                         error |-> TRUE,
                         error_code |-> error_code,
                         error_message |-> get_error_message(error_code)])
          ELSE IF function_code \in {3, 4}
          THEN LET byte_count == resp[3]
                   data == Slice(resp, 3, 3 + byte_count)
               IN  Some([slave_id |-> sid,
                         function_code |-> function_code,
                         error |-> FALSE,
                         byte_count |-> byte_count,
                         registers |-> parse_registers(data, 0)])
          ELSE Some([raw |-> resp])

\* dict.get(key) used as a condition: an absent key gives None, which is false
GetFlag(d, key) == IF key \in DOMAIN d THEN d[key] ELSE FALSE

\* dict.get(key, default)
Get(d, key, default) == IF key \in DOMAIN d THEN d[key] ELSE default

---------------------------------------------------------------------------
(* TracerModbusClient.parse_modbus_response (Home Assistant client)        *)

RECURSIVE HA_parse_registers(_, _)
HA_parse_registers(data, i) ==
    IF i >= Len(data) THEN <<>>
    ELSE (IF i + 1 < Len(data)
          THEN <<unpack_be_H(Slice(data, i, i + 2))>>
          ELSE <<>>) \o HA_parse_registers(data, i + 2)

\* an error response is logged ("Modbus error %d from slave %d") and gives None
HA_parse_modbus_response(resp) ==
    IF Len(resp) < 5 THEN None
    ELSE
      LET sid == resp[1]
          function_code == resp[2]
      IN  IF BitAnd(function_code, 128) # 0
          THEN None
          ELSE IF function_code \in {3, 4}
          THEN LET byte_count == resp[3]
                   data == Slice(resp, 3, 3 + byte_count)
               IN  Some([slave_id |-> sid,
                         function_code |-> function_code,
                         registers |-> HA_parse_registers(data, 0)])
          ELSE None

---------------------------------------------------------------------------
(* Request frames.  Each builder gives Packed(frame), or StructError when  *)
(* struct.pack raises.  sid is self.slave_id.                              *)

\* mutant: the register count packed ahead of the start address
create_modbus_command_swapped(sid, function_code, start_addr, num_registers) ==
    LET data == pack_BBHH(sid, function_code, num_registers, start_addr)
    IN  IF data.ok
        THEN Packed(data.bytes \o calculate_crc16(data.bytes))
        ELSE StructError

\* ModbusRTUClient.create_modbus_command
create_modbus_command(sid, function_code, start_addr, num_registers) ==
    LET data == pack_BBHH(sid, function_code, start_addr, num_registers)
    IN  IF data.ok
        THEN Packed(data.bytes \o calculate_crc16(data.bytes))
        ELSE StructError

\* TracerModbusClient.create_modbus_command
HA_create_modbus_command(sid, function_code, start_addr, num_registers) ==
    LET data == pack_BBHH(sid, function_code, start_addr, num_registers)
    IN  IF data.ok
        THEN Packed(data.bytes \o HA_calculate_crc16(data.bytes))
        ELSE StructError

\* mutant: the frame sent without its checksum
write_single_register_command_nocrc(sid, address, value) ==
    pack_BBHH(sid, 6, address, value)

\* write_single_register: "data = struct.pack('>BBHH', self.slave_id, 0x06,
\* address, value); crc = ...; cmd = data + crc"
write_single_register_command(sid, address, value) ==
    LET data == pack_BBHH(sid, 6, address, value)
    IN  IF data.ok
        THEN Packed(data.bytes \o calculate_crc16(data.bytes))
        ELSE StructError

\* "for value in values: data_bytes += struct.pack('>H', value)"
pack_values(values) ==
    IF \A k \in 1..Len(values) : pack_be_H(values[k]).ok
    THEN Packed([j \in 1..(2 * Len(values)) |->
                    pack_be_H(values[(j + 1) \div 2]).bytes[2 - (j % 2)]])
    ELSE StructError

\* mutant: the byte count field carrying the register count
write_multiple_registers_command_count(sid, start_addr, values) ==
    LET header == pack_BBHHB(sid, 16, start_addr, Len(values), Len(values))
        data_bytes == pack_values(values)
    IN  IF header.ok /\ data_bytes.ok
        THEN Packed(header.bytes \o data_bytes.bytes
                      \o calculate_crc16(header.bytes \o data_bytes.bytes))
        ELSE StructError

\* write_multiple_registers: header, register values, CRC
write_multiple_registers_command(sid, start_addr, values) ==
    LET num_registers == Len(values)
        byte_count == num_registers * 2
        header == pack_BBHHB(sid, 16, start_addr, num_registers, byte_count)
        data_bytes == pack_values(values)
    IN  IF header.ok /\ data_bytes.ok
        THEN Packed(header.bytes \o data_bytes.bytes
                      \o calculate_crc16(header.bytes \o data_bytes.bytes))
        ELSE StructError

---------------------------------------------------------------------------
(* What a call returns.  A value is tagged with its Python type.           *)

RNone == [type |-> "NoneType"]
RList(l) == [type |-> "list", value |-> l]
RBool(b) == [type |-> "bool", value |-> b]
Raised(e) == [type |-> "raise", value |-> e]

HexChars == <<"0", "1", "2", "3", "4", "5", "6", "7",
              "8", "9", "A", "B", "C", "D", "E", "F">>

RECURSIVE HexDigits(_)
HexDigits(n) ==
    IF n < 16 THEN HexChars[n + 1]
    ELSE HexDigits(n \div 16) \o HexChars[(n % 16) + 1]

\* f"{n:04X}" for n >= 0
Hex04(n) ==
    (IF n < 16 THEN "000" ELSE IF n < 256 THEN "00"
     ELSE IF n < 4096 THEN "0" ELSE "") \o HexDigits(n)

\* An outcome is the value returned, the lines printed, and what was parsed.
Outcome(r, lines, p) == [result |-> r, printed |-> lines, parsed |-> p]

\* mutant: the error flag of the parsed response not looked at
read_registers_finish_noerr(resp) ==
    IF resp = <<>> THEN Outcome(RNone, <<>>, None)
    ELSE
      LET p == parse_modbus_response(resp)
      IN  IF ~IsNone(p)
          THEN Outcome(RList(Get(The(p), "registers", <<>>)), <<>>, p)
          ELSE Outcome(RNone, <<>>, p)

\* ModbusRTUClient.read_registers from "if not response" on
read_registers_finish(resp) ==
    IF resp = <<>> THEN Outcome(RNone, <<>>, None)
    ELSE
      LET p == parse_modbus_response(resp)
      IN  IF ~IsNone(p) /\ ~GetFlag(The(p), "error")
          THEN Outcome(RList(Get(The(p), "registers", <<>>)), <<>>, p)
          ELSE IF ~IsNone(p) /\ GetFlag(The(p), "error")
          THEN Outcome(RNone,
                       <<"Modbus Error: "
                           \o Get(The(p), "error_message", "Unknown error")>>,
                       p)
          ELSE Outcome(RNone, <<>>, p)

\* mutant: a write reporting success whatever was parsed
write_register_finish_always(resp) ==
    IF resp = <<>> THEN Outcome(RBool(FALSE), <<>>, None)
    ELSE Outcome(RBool(TRUE), <<>>, parse_modbus_response(resp))

\* mutant: success only for a response that carries a write function code
write_register_finish_echo(resp) ==
    IF resp = <<>> THEN Outcome(RBool(FALSE), <<>>, None)
    ELSE
      LET p == parse_modbus_response(resp)
      IN  IF ~IsNone(p) /\ ~GetFlag(The(p), "error")
          THEN Outcome(RBool(resp[2] \in {6, 16}), <<>>, p)
          ELSE IF ~IsNone(p) /\ GetFlag(The(p), "error")
          THEN Outcome(RBool(FALSE),
                       <<"Modbus Write Error: "
                           \o Get(The(p), "error_message", "Unknown error")>>,
                       p)
          ELSE Outcome(RBool(FALSE), <<>>, p)

\* ModbusRTUClient.write_single_register and write_multiple_registers from
\* "if not response" on (the two methods end alike)
write_register_finish(resp) ==
    IF resp = <<>> THEN Outcome(RBool(FALSE), <<>>, None)
    ELSE
      LET p == parse_modbus_response(resp)
      IN  IF ~IsNone(p) /\ ~GetFlag(The(p), "error")
          THEN Outcome(RBool(TRUE), <<>>, p)
          ELSE IF ~IsNone(p) /\ GetFlag(The(p), "error")
          THEN Outcome(RBool(FALSE),
                       <<"Modbus Write Error: "
                           \o Get(The(p), "error_message", "Unknown error")>>,
                       p)
          ELSE Outcome(RBool(FALSE), <<>>, p)

\* TracerModbusClient.read_registers from "if not response" on; the parser's
\* own warning for an error response is part of what is logged
HA_read_registers_finish(resp, start_addr) ==
    IF resp = <<>>
    THEN Outcome(RNone,
                 <<"No response from device for address 0x" \o Hex04(start_addr)>>,
                 None)
    ELSE
      LET p == HA_parse_modbus_response(resp)
          warning == IF Len(resp) >= 5 /\ BitAnd(resp[2], 128) # 0
                     THEN <<"Modbus error " \o IntToStr(resp[3])
                              \o " from slave " \o IntToStr(resp[1])>>
                     ELSE <<>>
      IN  IF ~IsNone(p) /\ "registers" \in DOMAIN The(p)
          THEN Outcome(RList(The(p).registers), warning, p)
          ELSE Outcome(RNone, warning, p)

\* read_register_block of both clients, from the list (or None) that
\* read_holding_registers / read_input_registers returned: "if values:
\* return {start_addr + i: values[i] for i in range(len(values))}"
read_register_block(start_addr, values) ==
    IF values.type = "list" /\ values.value # <<>>
    THEN Some([a \in start_addr..(start_addr + Len(values.value) - 1) |->
                 values.value[a - start_addr + 1]])
    ELSE None

\* test_connection of both clients: "result = self.read_input_registers(
\* 0x3104, 1); return result is not None", and False when the read raised
test_connection_result(values) ==
    IF values.type = "raise" THEN FALSE ELSE values.type # "NoneType"

---------------------------------------------------------------------------
(* Pure-function harness: Init draws an input, an action applies one       *)
(* function to it and records what it returned.                            *)

NoRet == [f \in {} |-> 0]

Applied(f) == f \in DOMAIN ret

Apply(f, v) ==
    /\ ~Applied(f)
    /\ fn' = fn \cup {f}
    /\ ret' = ret @@ (f :> v)
    /\ arg' = arg
    /\ UNCHANGED <<clientVars, cliVars, dataVars, haVars>>

\* the client of a specification that calls no read or write operation
NoOp == [name |-> "none", fc |-> 0, addr |-> 0, n |-> 0, values |-> <<>>]
NoResult == [type |-> "unset"]

\* no CLI command is running
NoArgs == [command |-> "none"]

CliIdle ==
    /\ cli_pc = "none"
    /\ args = NoArgs
    /\ handles = 0
    /\ wire = <<>>
    /\ idx = 0
    /\ success_count = 0
    /\ failed_params = <<>>
    /\ skipped_params = <<>>
    /\ acked = <<>>
    /\ verify_raw = None
    /\ exit_code = None
    /\ pauses = <<>>
    /\ now = 0
    /\ snapshot = None
    /\ assembled = <<>>
    /\ output = None
    /\ jobs = <<>>
    /\ line = <<>>

ClientIdle ==
    /\ CliIdle
    /\ client = "cli"
    /\ slave_id = 1
    /\ conn = "none"
    /\ pc = "idle"
    /\ op = NoOp
    /\ cmd = <<>>
    /\ tx = <<>>
    /\ in_buf = <<>>
    /\ unanswered = 0
    /\ response = <<>>
    /\ parsed = None
    /\ result = NoResult
    /\ printed = <<>>
    /\ steps = <<>>
    /\ delay_ms = 0
    /\ caught = "none"

\* byte strings over a set of bytes, of length 0..n
RECURSIVE SeqsUpTo(_, _)
SeqsUpTo(S, n) ==
    IF n = 0 THEN {<<>>}
    ELSE LET shorter == SeqsUpTo(S, n - 1)
         IN  shorter \cup {Append(s, b) : s \in {t \in shorter : Len(t) = n - 1}, b \in S}

---------------------------------------------------------------------------
(* Specification SpecCrc: both clients' calculate_crc16 on byte strings.   *)

MaxCrcLen == 3
CrcByteSamples == {0, 1, 49, 128, 255}

\* the read request for one input register at 0x3104, and ASCII "123456789"
CrcVectors == { <<1, 4, 49, 4, 0, 1>>,
                <<49, 50, 51, 52, 53, 54, 55, 56, 57>> }

CrcInputs == SeqsUpTo(CrcByteSamples, MaxCrcLen) \cup CrcVectors

InitCrc ==
    /\ fn = {}
    /\ arg \in [kind : {"bytes"}, data : CrcInputs]
    /\ ret = NoRet
    /\ ClientIdle

Apply_calculate_crc16 ==
    /\ arg.kind = "bytes"
    /\ Apply("calculate_crc16", calculate_crc16(arg.data))

Apply_HA_calculate_crc16 ==
    /\ arg.kind = "bytes"
    /\ Apply("HA_calculate_crc16", HA_calculate_crc16(arg.data))

NextCrc ==
    \/ Apply_calculate_crc16
    \/ Apply_HA_calculate_crc16

SpecCrc == InitCrc /\ [][NextCrc]_vars

---------------------------------------------------------------------------
(* Specification SpecParse: both clients' parse_modbus_response on         *)
(* response byte strings <<slave, function code, third byte>> \o tail.     *)

MaxThirdByte == 9
MaxTail == 5
ParseSlaveSamples == {1, 247}
ParseFcSamples == {3, 4, 6, 16, 131, 134, 255}
ParseTailSamples == {9, 152, 255}

\* 01 04 02 09 98 BE CA: one input register holding 2456, with its CRC
ReadExample == <<1, 4, 2, 9, 152, 190, 202>>
\* 01 84 02 C2 C1: exception 2 answering a read of input registers
NackExample == <<1, 132, 2, 194, 193>>
\* exception responses carrying codes outside the message table
NackUnknown == { <<1, 131, 255, 0, 0>>, <<1, 134, 100, 0, 0>> }

ParseInputs ==
    { <<s, f, b>> \o t : s \in ParseSlaveSamples, f \in ParseFcSamples,
                         b \in 0..MaxThirdByte,
                         t \in SeqsUpTo(ParseTailSamples, MaxTail) }
    \cup SeqsUpTo({1, 4}, 2)
    \cup {ReadExample, NackExample} \cup NackUnknown

InitParse ==
    /\ fn = {}
    /\ arg \in [kind : {"response"}, data : ParseInputs]
    /\ ret = NoRet
    /\ ClientIdle

Apply_parse_modbus_response ==
    /\ arg.kind = "response"
    /\ Apply("parse_modbus_response", parse_modbus_response(arg.data))

Apply_HA_parse_modbus_response ==
    /\ arg.kind = "response"
    /\ Apply("HA_parse_modbus_response", HA_parse_modbus_response(arg.data))

NextParse ==
    \/ Apply_parse_modbus_response
    \/ Apply_HA_parse_modbus_response

SpecParse == InitParse /\ [][NextParse]_vars

---------------------------------------------------------------------------
(* Specification Spec: one client object on one serial line.  A read or    *)
(* write call is a sequence of steps (build the frame, flush, write,       *)
(* sleep, read and finish); between the steps the device may put bytes     *)
(* into the input buffer.  A caller runs one call at a time.               *)

READ_DELAY_MS == 50      \* time.sleep(0.05)
WRITE_DELAY_MS == 100    \* time.sleep(0.1)

MaxPending == 1          \* requests the device may still answer
MaxValues == 2           \* length of the enumerated value lists

SlaveSamples == {1, 247}
ReadFcSamples == {3, 4}
WriteAddrSamples == {36864, 65536}
CountSamples == {0, 1, 2, 65535, 65536}
ValueSamples == {-1, 0, 2456, 65535, 65536}
\* read calls <<function_code, start_addr, num_registers>>
ReadArgSamples ==
    { <<f, 12548, c>> : f \in ReadFcSamples, c \in CountSamples }
    \cup { <<3, 0, 1>>, <<3, 65535, 65535>>, <<4, 65536, 1>> }
ListValueSamples == {2456, 65535}
\* the longest list whose byte count fits one byte, and the next longer one
LongListLens == {127, 128}

ShortValueLists ==
    SeqsUpTo(ListValueSamples, MaxValues) \cup { <<65536>>, <<2456, -1>> }

LongValueLists == { [k \in 1..len |-> 2456] : len \in LongListLens }

\* what may arrive on the line: read responses (one register, two registers,
\* no data, another slave's), an exception response, a write acknowledgement
\* and truncated frames
ResponseSamples ==
    { <<1, 4, 2, 9, 152, 190, 202>>,
      <<1, 3, 4, 0, 1, 0, 2, 42, 50>>,
      <<1, 4, 0, 34, 192>>,
      <<2, 4, 2, 9, 152, 190, 202>>,
      <<1, 132, 2, 194, 193>>,
      <<1, 6, 144, 0, 9, 152, 163, 48>>,
      <<1, 4, 2, 9>>,
      <<1>> }

ReadOp(function_code, start_addr, num_registers) ==
    [name |-> "read_registers", fc |-> function_code, addr |-> start_addr,
     n |-> num_registers, values |-> <<>>]

WriteSingleOp(address, value) ==
    [name |-> "write_single_register", fc |-> 6, addr |-> address,
     n |-> 1, values |-> <<value>>]

WriteMultipleOp(start_addr, values) ==
    [name |-> "write_multiple_registers", fc |-> 16, addr |-> start_addr,
     n |-> Len(values), values |-> values]

IsRead == op.name = "read_registers"
IsWrite == op.name \in {"write_single_register", "write_multiple_registers"}

Init ==
    /\ fn = {}
    /\ arg = [kind |-> "none", data |-> <<>>]
    /\ ret = NoRet
    /\ client \in {"cli", "ha"}
    /\ slave_id \in SlaveSamples
    /\ client = "ha" => slave_id = 1
    /\ conn = "none"
    /\ pc = "idle"
    /\ op = NoOp
    /\ cmd = <<>>
    /\ tx = <<>>
    /\ in_buf = <<>>
    /\ unanswered = 0
    /\ response = <<>>
    /\ parsed = None
    /\ result = NoResult
    /\ printed = <<>>
    /\ steps = <<>>
    /\ delay_ms = 0
    /\ caught = "none"
    /\ CliIdle

\* the caller has no call running
Callable == pc = "idle"

\* connect(): serial.Serial(...) opens the port, or raises and connect
\* returns False leaving serial_conn as it was
Connect ==
    /\ Callable
    /\ conn # "open"
    /\ \/ conn' = "open"
       \/ conn' = conn
    /\ UNCHANGED <<cliVars, dataVars, haVars, fn, arg, ret, client, slave_id,
                   pc, op, cmd, tx, in_buf, unanswered, response, parsed,
                   result, printed, steps, delay_ms, caught>>

\* disconnect(): "if self.serial_conn and self.serial_conn.is_open: close()"
Disconnect ==
    /\ Callable
    /\ conn = "open"
    /\ conn' = "closed"
    /\ UNCHANGED <<cliVars, dataVars, haVars, fn, arg, ret, client, slave_id,
                   pc, op, cmd, tx, in_buf, unanswered, response, parsed,
                   result, printed, steps, delay_ms, caught>>

\* the line printed by the except clause of the running call; the text of
\* the exception is stood for by its class name
ExceptLine(e) ==
    IF op.name = "read_registers"
    THEN "Error reading registers 0x" \o Hex04(op.addr) \o ": " \o e
    ELSE IF op.name = "write_single_register"
    THEN "Error writing register 0x" \o Hex04(op.addr) \o ": " \o e
    ELSE "Error writing registers starting at 0x" \o Hex04(op.addr) \o ": " \o e

\* the value a call returns when it fails
FailValue(o) == IF o.name = "read_registers" THEN RNone ELSE RBool(FALSE)

\* entering a call: the connection test, then the request frame is built
Begin(o, frame) ==
    /\ Callable
    /\ op' = o
    /\ tx' = <<>>
    /\ response' = <<>>
    /\ parsed' = None
    /\ steps' = <<>>
    /\ delay_ms' = 0
    /\ IF conn # "open"
       THEN /\ pc' = "done"
            /\ cmd' = <<>>
            /\ caught' = "none"
            /\ IF client = "cli"
               THEN /\ result' = Raised("ConnectionError")
                    /\ printed' = <<>>
               ELSE /\ result' = RNone
                    /\ printed' = <<"Serial connection not established">>
       ELSE IF ~frame.ok
       THEN /\ pc' = "done"
            /\ cmd' = <<>>
            /\ caught' = "struct.error"
            /\ result' = FailValue(o)
            /\ printed' =
                 <<(IF o.name = "read_registers"
                    THEN "Error reading registers 0x"
                    ELSE IF o.name = "write_single_register"
                    THEN "Error writing register 0x"
                    ELSE "Error writing registers starting at 0x")
                   \o Hex04(o.addr) \o ": struct.error">>
       ELSE /\ pc' = "built"
            /\ cmd' = frame.bytes
            /\ caught' = "none"
            /\ result' = NoResult
            /\ printed' = <<>>
    /\ UNCHANGED <<cliVars, dataVars, haVars, fn, arg, ret, client, slave_id,
                   conn, in_buf, unanswered>>

\* read_registers(function_code, start_addr, num_registers) is called
Call_read_registers ==
    \E a \in ReadArgSamples :
        Begin(ReadOp(a[1], a[2], a[3]),
              IF client = "cli"
              THEN create_modbus_command(slave_id, a[1], a[2], a[3])
              ELSE HA_create_modbus_command(slave_id, a[1], a[2], a[3]))

\* write_single_register(address, value) is called
Call_write_single_register ==
    /\ client = "cli"
    /\ \E address \in WriteAddrSamples, value \in ValueSamples :
        Begin(WriteSingleOp(address, value),
              write_single_register_command(slave_id, address, value))

\* write_multiple_registers(start_addr, values) is called; the long lists
\* are drawn on a quiet line only
Call_write_multiple_registers ==
    /\ client = "cli"
    /\ \E start_addr \in {36864},
          values \in ShortValueLists \cup
                     (IF in_buf = <<>> /\ unanswered = 0
                      THEN LongValueLists ELSE {}) :
        Begin(WriteMultipleOp(start_addr, values),
              write_multiple_registers_command(slave_id, start_addr, values))

\* self.serial_conn.reset_input_buffer()
Flush ==
    /\ pc = "built"
    /\ in_buf' = <<>>
    /\ steps' = Append(steps, "reset_input_buffer")
    /\ pc' = "flushed"
    /\ UNCHANGED <<cliVars, dataVars, haVars, fn, arg, ret, client, slave_id,
                   conn, op, cmd, tx, unanswered, response, parsed, result,
                   printed, delay_ms, caught>>

\* self.serial_conn.write(cmd)
Write ==
    /\ pc = "flushed"
    /\ tx' = Append(tx, cmd)
    /\ unanswered' = Min(unanswered + 1, MaxPending)
    /\ steps' = Append(steps, "write")
    /\ pc' = "written"
    /\ UNCHANGED <<cliVars, dataVars, haVars, fn, arg, ret, client, slave_id,
                   conn, op, cmd, in_buf, response, parsed, result, printed,
                   delay_ms, caught>>

\* mutant: the call going on to read without the delay
Sleep_skipped ==
    /\ pc = "written"
    /\ pc' = "slept"
    /\ UNCHANGED <<cliVars, dataVars, haVars, fn, arg, ret, client, slave_id,
                   conn, op, cmd, tx, in_buf, unanswered, response, parsed,
                   result, printed, steps, delay_ms, caught>>

\* time.sleep(0.05) in a read, time.sleep(0.1) in a write
Sleep ==
    /\ pc = "written"
    /\ delay_ms' = delay_ms + (IF IsRead THEN READ_DELAY_MS ELSE WRITE_DELAY_MS)
    /\ steps' = Append(steps, "sleep")
    /\ pc' = "slept"
    /\ UNCHANGED <<cliVars, dataVars, haVars, fn, arg, ret, client, slave_id,
                   conn, op, cmd, tx, in_buf, unanswered, response, parsed,
                   result, printed, caught>>

\* the size given to read() when nothing is waiting
ReadSize == IF IsRead THEN 5 + op.n * 2 ELSE 8

\* the rest of the call once read() returned resp
Finish(resp) ==
    LET out == IF IsWrite THEN write_register_finish(resp)
               ELSE IF client = "cli" THEN read_registers_finish(resp)
               ELSE HA_read_registers_finish(resp, op.addr)
    IN  /\ response' = resp
        /\ parsed' = out.parsed
        /\ result' = out.result
        /\ printed' = out.printed
        /\ steps' = Append(steps, "read")
        /\ pc' = "done"
        /\ UNCHANGED <<cliVars, dataVars, haVars, fn, arg, ret, client,
                       slave_id, conn, op, cmd, tx, delay_ms, caught>>

\* read(in_waiting): bytes are waiting and exactly those are read
ReadWaiting ==
    /\ pc = "slept"
    /\ in_buf # <<>>
    /\ in_buf' = <<>>
    /\ unanswered' = unanswered
    /\ Finish(in_buf)

\* mutant: the request sent once more after a timeout
ReadTimeout_retry ==
    /\ pc = "slept"
    /\ in_buf = <<>>
    /\ IF Len(tx) < 2
       THEN /\ pc' = "built"
            /\ steps' = Append(steps, "read")
            /\ UNCHANGED <<cliVars, dataVars, haVars, fn, arg, ret, client,
                           slave_id, conn, op, cmd, tx, in_buf, unanswered,
                           response, parsed, result, printed, delay_ms,
                           caught>>
       ELSE /\ in_buf' = <<>>
            /\ unanswered' = unanswered
            /\ Finish(<<>>)

\* read(size) with nothing waiting: the timeout passes without a byte
ReadTimeout ==
    /\ pc = "slept"
    /\ in_buf = <<>>
    /\ in_buf' = <<>>
    /\ unanswered' = unanswered
    /\ Finish(<<>>)

\* read(size) with nothing waiting: an answer arrives before the timeout
\* and at most size bytes of it are read
ReadArriving ==
    /\ pc = "slept"
    /\ in_buf = <<>>
    /\ unanswered > 0
    /\ unanswered' = unanswered - 1
    /\ \E r \in ResponseSamples :
         /\ in_buf' = Slice(r, ReadSize, Len(r))
         /\ Finish(Slice(r, 0, ReadSize))

\* a serial call (reset_input_buffer, write, in_waiting or read) raises
\* and the call's except clause prints the error and returns
SerialFail ==
    /\ pc \in {"built", "flushed", "slept"}
    /\ caught' = "SerialException"
    /\ result' = FailValue(op)
    /\ printed' = <<ExceptLine("SerialException")>>
    /\ pc' = "done"
    /\ UNCHANGED <<cliVars, dataVars, haVars, fn, arg, ret, client, slave_id,
                   conn, op, cmd, tx, in_buf, unanswered, response, parsed,
                   steps, delay_ms>>

\* the call has returned (or raised) and its caller goes on
Return ==
    /\ pc = "done"
    /\ pc' = "idle"
    /\ op' = NoOp
    /\ cmd' = <<>>
    /\ tx' = <<>>
    /\ response' = <<>>
    /\ parsed' = None
    /\ result' = NoResult
    /\ printed' = <<>>
    /\ steps' = <<>>
    /\ delay_ms' = 0
    /\ caught' = "none"
    /\ UNCHANGED <<cliVars, dataVars, haVars, fn, arg, ret, client, slave_id,
                   conn, in_buf, unanswered>>

\* the device (or the line) delivers an answer to a request it received;
\* bytes arriving at a port that is not open are lost
DeviceRespond ==
    /\ unanswered > 0
    /\ unanswered' = unanswered - 1
    /\ \E r \in ResponseSamples :
         in_buf' = IF conn = "open" THEN in_buf \o r ELSE in_buf
    /\ UNCHANGED <<cliVars, dataVars, haVars, fn, arg, ret, client, slave_id,
                   conn, pc, op, cmd, tx, response, parsed, result, printed,
                   steps, delay_ms, caught>>

Next ==
    \/ Connect
    \/ Disconnect
    \/ Call_read_registers
    \/ Call_write_single_register
    \/ Call_write_multiple_registers
    \/ Flush
    \/ Write
    \/ Sleep
    \/ ReadWaiting
    \/ ReadTimeout
    \/ ReadArriving
    \/ SerialFail
    \/ Return
    \/ DeviceRespond

Spec == Init /\ [][Next]_vars

---------------------------------------------------------------------------
(* Reference Modbus CRC16, table driven (one table entry per nibble).      *)

CrcNibbleTable ==
    <<0, 52225, 55297, 5120, 61441, 15360, 10240, 58369,
      40961, 27648, 30720, 46081, 20480, 39937, 34817, 17408>>

RefNibble(crc, nib) ==
    BitXor(CrcNibbleTable[BitAnd(BitXor(crc, nib), 15) + 1], crc \div 16)

RECURSIVE RefCrc(_, _, _, _)
RefCrc(crc, data, lo, hi) ==
    IF crc >= 0 /\ lo > hi THEN crc
    ELSE IF lo = hi
         THEN RefNibble(RefNibble(crc, data[lo] % 16), data[lo] \div 16)
    ELSE LET mid == (lo + hi) \div 2
         IN  RefCrc(RefCrc(crc, data, lo, mid), data, mid + 1, hi)

ReferenceCrc16(data) == RefCrc(65535, data, 1, Len(data))

\* C1: for every byte string, calculate_crc16 returns the Modbus CRC16 of it
\* (equal to the table-driven reference), the value lies in 0..0xFFFF and is
\* emitted as exactly two bytes, low byte first; the vector 01 04 31 04 00 01
\* gives 7E F7; and the Home Assistant client returns the same bytes.
C1_Crc16IsModbusCrc ==
    /\ Applied("calculate_crc16") =>
         LET out == ret["calculate_crc16"]
             ref == ReferenceCrc16(arg.data)
         IN  /\ ref \in 0..65535
             /\ Len(out) = 2
             /\ out[1] = ref % 256
             /\ out[2] = ref \div 256
             /\ arg.data = <<1, 4, 49, 4, 0, 1>> => out = <<126, 247>>
             /\ arg.data = <<>> => out = <<255, 255>>
    /\ (Applied("calculate_crc16") /\ Applied("HA_calculate_crc16")) =>
         ret["calculate_crc16"] = ret["HA_calculate_crc16"]

\* C1 witness: both clients have computed the CRC of the 6-byte read request.
C1_Witness ==
    /\ Applied("calculate_crc16") /\ Applied("HA_calculate_crc16")
    /\ arg.data = <<1, 4, 49, 4, 0, 1>>
    /\ ret["calculate_crc16"] = <<126, 247>>

---------------------------------------------------------------------------
(* Claims C5, C6: the response parser.                                     *)

\* a non-error response of at least 5 bytes with function code 0x03 or 0x04
IsReadResponse(r) == Len(r) >= 5 /\ r[2] \in {3, 4}

\* a response of at least 5 bytes whose function-code byte has bit 0x80 set
IsErrorResponse(r) == Len(r) >= 5 /\ r[2] >= 128

\* what the claim says the registers of a read response are: byte 3 is the
\* byte count, the bytes after it, up to that count, pair up high byte first
ExpectedRegisters(r) ==
    LET avail == Min(r[3], Len(r) - 3)
    IN  [k \in 1..(avail \div 2) |-> r[2 + 2 * k] * 256 + r[3 + 2 * k]]

RegistersAsClaimed(out, r) ==
    /\ ~IsNone(out)
    /\ "registers" \in DOMAIN The(out)
    /\ The(out).registers = ExpectedRegisters(r)
    /\ \A k \in 1..Len(The(out).registers) : The(out).registers[k] \in 0..65535

\* C5: for a non-error response of at least 5 bytes with function code 0x03
\* or 0x04, both parsers return the bytes after byte 3, up to the byte count
\* in byte 3, as big-endian registers in wire order, dropping a trailing odd
\* byte; 01 04 02 09 98 <crc> gives registers = [2456].
C5_ReadResponseRegisters ==
    /\ (Applied("parse_modbus_response") /\ IsReadResponse(arg.data)) =>
         /\ RegistersAsClaimed(ret["parse_modbus_response"], arg.data)
         /\ The(ret["parse_modbus_response"]).byte_count = arg.data[3]
         /\ arg.data = ReadExample =>
              The(ret["parse_modbus_response"]).registers = <<2456>>
    /\ (Applied("HA_parse_modbus_response") /\ IsReadResponse(arg.data)) =>
         /\ RegistersAsClaimed(ret["HA_parse_modbus_response"], arg.data)
         /\ arg.data = ReadExample =>
              The(ret["HA_parse_modbus_response"]).registers = <<2456>>

\* C5 witness: a read response declaring 3 data bytes was parsed by both
\* clients: one register, the trailing odd byte dropped.
C5_Witness ==
    /\ Applied("parse_modbus_response") /\ Applied("HA_parse_modbus_response")
    /\ arg.data = <<1, 3, 3, 9, 152, 255, 9, 9>>
    /\ The(ret["parse_modbus_response"]).registers = <<2456>>
    /\ The(ret["HA_parse_modbus_response"]).registers = <<2456>>

\* the meaning the claim gives each exception code
ClaimedMeaning(code) ==
    CASE code = 1 -> "Illegal Function"
      [] code = 2 -> "Illegal Data Address"
      [] code = 3 -> "Illegal Data Value"
      [] code = 4 -> "Slave Device Failure"
      [] code = 5 -> "Acknowledge"
      [] code = 6 -> "Slave Device Busy"
      [] code = 8 -> "Memory Parity Error"
      [] code = 0 -> "Unknown Error (0)"
      [] code = 7 -> "Unknown Error (7)"
      [] code = 9 -> "Unknown Error (9)"
      [] code = 10 -> "Unknown Error (10)"
      [] code = 100 -> "Unknown Error (100)"
      [] code = 255 -> "Unknown Error (255)"
      [] OTHER -> "Unknown Error (" \o IntToStr(code) \o ")"

\* C6: for a response of at least 5 bytes whose function-code byte has the
\* high bit set, parse_modbus_response reports an error whose exception code
\* is byte 3 and whose message is the one the code table gives (Unknown
\* Error (code) outside the table); it reports no registers.
C6_ErrorResponseDecoded ==
    (Applied("parse_modbus_response") /\ IsErrorResponse(arg.data)) =>
        LET out == ret["parse_modbus_response"]
        IN  /\ ~IsNone(out)
            /\ "error" \in DOMAIN The(out)
            /\ The(out).error = TRUE
            /\ The(out).error_code = arg.data[3]
            /\ The(out).error_message = ClaimedMeaning(arg.data[3])
            /\ "registers" \notin DOMAIN The(out)

\* C6 witness: the exception response 01 84 02 C2 C1 was parsed.
C6_Witness ==
    /\ Applied("parse_modbus_response")
    /\ arg.data = NackExample
    /\ The(ret["parse_modbus_response"]).error_message = "Illegal Data Address"

---------------------------------------------------------------------------
(* Claims C2, C3, C4: the request frames.                                  *)

Last(q) == q[Len(q)]

\* the running or finished call passed its connection test
PastConnectionTest == pc # "idle" /\ conn = "open"

\* read() returned to the running call
ReadReturned == pc = "done" /\ steps # <<>> /\ Last(steps) = "read"

IsFrameBytes(f) == \A k \in 1..Len(f) : f[k] \in 0..255

\* the last two bytes of f are the CRC16 of the bytes before them, low byte
\* first
EndsWithCrc(f) ==
    /\ Len(f) >= 2
    /\ f[Len(f) - 1] + 256 * f[Len(f)]
         = ReferenceCrc16(SubSeq(f, 1, Len(f) - 2))

\* f reads as [slave][function code][a: 2 bytes BE][b: 2 bytes BE]...
HasHeader(f, sid, function_code, a, b) ==
    /\ Len(f) >= 6
    /\ f[1] = sid
    /\ f[2] = function_code
    /\ f[3] * 256 + f[4] = a
    /\ f[5] * 256 + f[6] = b

\* C2: for a slave id in 1..247, function code 0x03 or 0x04, start address
\* and register count in 0..65535, create_modbus_command (of either client)
\* returns exactly 8 bytes: slave id, function code, start address and
\* register count big-endian, then the CRC16 of those 6 bytes low byte first.
\* The frame is looked at in the state where it has just been returned.
C2_ReadCommandFrame ==
    (/\ IsRead /\ PastConnectionTest
     /\ slave_id \in 1..247 /\ op.fc \in {3, 4}
     /\ op.addr \in 0..65535 /\ op.n \in 0..65535) =>
        /\ caught # "struct.error"
        /\ Len(cmd) = 8
        /\ pc = "built" =>
             /\ IsFrameBytes(cmd)
             /\ HasHeader(cmd, slave_id, op.fc, op.addr, op.n)
             /\ EndsWithCrc(cmd)
             /\ (slave_id = 1 /\ op.fc = 4 /\ op.addr = 12548 /\ op.n = 1) =>
                   cmd = <<1, 4, 49, 4, 0, 1, 126, 247>>

\* C2 witness: a client has built the read request for
\* 65535 registers at address 65535 as slave 247.
C2_Witness ==
    /\ IsRead /\ PastConnectionTest
    /\ slave_id = 247 /\ op.addr = 65535 /\ op.n = 65535
    /\ Len(cmd) = 8

\* C3: for address and value in 0..65535 the frame write_single_register
\* writes to the serial line is exactly 8 bytes: slave id, 0x06, address and
\* value big-endian, then the CRC16 of those 6 bytes low byte first; and
\* that frame is built (struct.pack does not raise).  The frame is looked at
\* in the state where it has just been written.
C3_WriteSingleFrame ==
    (/\ op.name = "write_single_register" /\ PastConnectionTest
     /\ op.addr \in 0..65535 /\ op.values[1] \in 0..65535) =>
        /\ caught # "struct.error"
        /\ tx # <<>> => (tx = <<cmd>> /\ Len(tx[1]) = 8)
        /\ pc = "written" =>
             /\ tx # <<>>
             /\ IsFrameBytes(tx[1])
             /\ HasHeader(tx[1], slave_id, 6, op.addr, op.values[1])
             /\ EndsWithCrc(tx[1])

\* C3 witness: write_single_register(0x9000, 2456) has written its frame.
C3_Witness ==
    /\ op.name = "write_single_register"
    /\ slave_id = 1 /\ op.addr = 36864 /\ op.values = <<2456>>
    /\ tx = << <<1, 6, 144, 0, 9, 152, 163, 48>> >>

\* the frame the claim describes for write_multiple_registers
IsWriteMultipleFrame(f, sid, start_addr, values) ==
    LET n == Len(values)
    IN  /\ Len(f) = 9 + 2 * n
        /\ IsFrameBytes(f)
        /\ HasHeader(f, sid, 16, start_addr, n)
        /\ f[7] = 2 * n
        /\ \A k \in 1..n : f[6 + 2 * k] * 256 + f[7 + 2 * k] = values[k]
        /\ EndsWithCrc(f)

WriteMultipleInDomain ==
    /\ op.name = "write_multiple_registers"
    /\ PastConnectionTest
    /\ op.addr \in 0..65535
    /\ \A k \in 1..Len(op.values) : op.values[k] \in 0..65535

\* C4 as claimed: for every start address and every list of n values in
\* 0..65535, write_multiple_registers writes the frame slave id, 0x10, start
\* address, n, byte count 2*n, the values, CRC; of length 9 + 2*n.
C4_AsClaimed ==
    (WriteMultipleInDomain /\ pc = "done" /\ caught # "SerialException") =>
        /\ Len(tx) = 1
        /\ IsWriteMultipleFrame(tx[1], slave_id, op.addr, op.values)

\* C4 amended: the frame is as claimed for every list of n <= 127 values;
\* for n >= 128 the byte count 2*n does not fit its one byte, struct.pack
\* raises, no frame is written and the call returns False.  The frame is
\* looked at in the state where it has just been written.
C4_WriteMultipleFrame ==
    /\ (WriteMultipleInDomain /\ Len(op.values) <= 127) =>
          /\ caught # "struct.error"
          /\ tx # <<>> => (tx = <<cmd>> /\ Len(tx[1]) = 9 + 2 * Len(op.values))
          /\ pc = "written" =>
               /\ tx # <<>>
               /\ IsWriteMultipleFrame(tx[1], slave_id, op.addr, op.values)
    /\ (WriteMultipleInDomain /\ Len(op.values) >= 128) =>
          /\ pc = "done"
          /\ tx = <<>>
          /\ caught = "struct.error"
          /\ result = RBool(FALSE)

\* C4 witness: a list of 127 values was written as a frame of 263 bytes
\* whose byte count field is 254.
C4_Witness ==
    /\ op.name = "write_multiple_registers"
    /\ Len(op.values) = 127
    /\ Len(tx) = 1
    /\ Len(tx[1]) = 263
    /\ tx[1][7] = 254

---------------------------------------------------------------------------
(* Claims C7, C8, C9: what a call returns for a short frame, an exception  *)
(* response and an empty read.                                             *)

\* the call did not raise and no exception was caught inside it
NothingRaised == result.type # "raise" /\ caught = "none"

\* C7: for every response shorter than 5 bytes parse_modbus_response yields
\* no parsed result, a read returns None and a write returns False; none
\* raises.
C7_ShortFrame ==
    (ReadReturned /\ Len(response) < 5) =>
        /\ parsed = None
        /\ IsRead => result = RNone
        /\ IsWrite => result = RBool(FALSE)
        /\ NothingRaised

\* C7 witness: a read and its caller saw the 4 bytes 01 04 02 09.
C7_Witness ==
    /\ ReadReturned
    /\ response = <<1, 4, 2, 9>>
    /\ result = RNone

\* C8: when the response read is an exception response carrying code 2, the
\* call prints or logs the error (Illegal Data Address in the CLI client,
\* the code in the Home Assistant client), does not raise, a write returns
\* False and a read returns None, not a register list.
C8_IllegalDataAddress ==
    (ReadReturned /\ IsErrorResponse(response) /\ response[3] = 2) =>
        /\ NothingRaised
        /\ IsRead => result = RNone
        /\ IsWrite => result = RBool(FALSE)
        /\ result.type # "list"
        /\ (client = "cli" /\ IsRead) =>
              printed = <<"Modbus Error: Illegal Data Address">>
        /\ (client = "cli" /\ IsWrite) =>
              printed = <<"Modbus Write Error: Illegal Data Address">>
        /\ (client = "ha" /\ slave_id = 1 /\ response[1] = 1) =>
              printed = <<"Modbus error 2 from slave 1">>

\* C8 witness: a CLI read was answered 01 84 02 C2 C1.
C8_Witness ==
    /\ ReadReturned /\ IsRead /\ client = "cli"
    /\ response = <<1, 132, 2, 194, 193>>
    /\ printed = <<"Modbus Error: Illegal Data Address">>

\* what the running call returns when read() gives no byte
EmptyReadResult ==
    IF IsWrite THEN write_register_finish(<<>>).result
    ELSE IF client = "cli" THEN read_registers_finish(<<>>).result
    ELSE HA_read_registers_finish(<<>>, op.addr).result

\* C9 as claimed: the value a read or write returns for an exception
\* response differs from the value it returns for an empty response.
C9_NoResponseDistinct ==
    (ReadReturned /\ IsErrorResponse(response)) => result # EmptyReadResult

---------------------------------------------------------------------------
(* Claim C10: the order of the transport steps.                            *)

TransportSteps == <<"reset_input_buffer", "write", "sleep", "read">>

IsPrefix(q, r) == Len(q) <= Len(r) /\ q = SubSeq(r, 1, Len(q))

\* C10 as claimed: every read and write call on an open connection performs
\* flush, write, wait, read, each exactly once.
C10_AsClaimed ==
    (pc = "done" /\ conn = "open") => steps = TransportSteps

\* C10 amended: the steps a call has performed are always the first steps
\* of flush, write, wait (50 ms in a read, 100 ms in a write), read, each at
\* most once: nothing is read before the request is written and the input
\* buffer is not flushed after it; a call on an open connection in which no
\* exception is raised (by struct.pack building the frame, or by a serial
\* call) performs all four, and writes its one frame at the write step.
C10_TransportOrder ==
    /\ IsPrefix(steps, TransportSteps)
    /\ Len(tx) = (IF Len(steps) >= 2 THEN 1 ELSE 0)
    /\ Len(steps) < 4 => response = <<>>
    /\ delay_ms = (IF Len(steps) < 3 THEN 0
                   ELSE IF IsRead THEN 50 ELSE 100)
    /\ (pc = "done" /\ conn = "open" /\ caught = "none") =>
          steps = TransportSteps

\* C10 witness: a write call went through the four steps and slept 100 ms.
C10_Witness ==
    /\ pc = "done" /\ IsWrite
    /\ steps = TransportSteps
    /\ delay_ms = 100
    /\ response # <<>>


---------------------------------------------------------------------------
(* Specification SpecCli: one run of a command of src/src/main.py (write,   *)
(* write-config or restore-config) against one device.  A client call      *)
(* (read_single_register, write_single_register) is one step of a command; *)
(* the serial steps inside a call are those of specification Spec.         *)

MaxBatch == 2            \* parameters in a batch

\* One entry of a command's input with what the parameter table and the
\* validator made of it.  param is what get_writable_parameter(name)
\* returned: None, or the parameter with its register address.  valid is
\* the first result of validate_value.  raw is the raw value to write: the
\* third result of validate_value, or the backup entry's "raw_value" (None
\* when the entry has no such key).
Entry(name, param, valid, raw) ==
    [name |-> name, param |-> param, valid |-> valid, raw |-> raw]

Parameter(address) == Some([address |-> address])

\* what write and write-config may be given
WriteEntries ==
    { Entry("battery_capacity", Parameter(36865), TRUE, Some(200)),
      Entry("battery_capacity", Parameter(36865), FALSE, None),
      Entry("battery_type", Parameter(36864), TRUE, Some(4)),
      Entry("pv_voltage", None, FALSE, None) }

\* what a backup file may hold: values a backup recorded, a value no
\* register can hold, an entry without "raw_value", a name that is not
\* writable
RestoreEntries ==
    { Entry("battery_capacity", Parameter(36865), TRUE, Some(200)),
      Entry("battery_capacity", Parameter(36865), TRUE, Some(65536)),
      Entry("battery_type", Parameter(36864), TRUE, Some(4)),
      Entry("battery_type", Parameter(36864), TRUE, None),
      Entry("old_parameter", None, TRUE, Some(7)) }

\* dict items: sequences of 1..MaxBatch entries with distinct names
Batches(S) ==
    { q \in SeqsUpTo(S, MaxBatch) :
        /\ q # <<>>
        /\ \A i, j \in 1..Len(q) : i # j => q[i].name # q[j].name }

\* the command lines: answer is what the user types at the confirmation
\* prompt, file says how reading the command's input file went (for
\* write-config, "rejected" stands for an unknown battery type, a config
\* file that does not load, or no parameter given)
CommandLines ==
    [command : {"write"}, dry_run : BOOLEAN, force : BOOLEAN,
     answer : {"yes", "no"}, file : {"ok"},
     items : { <<e>> : e \in WriteEntries }]
    \cup
    [command : {"write-config"}, dry_run : BOOLEAN, force : BOOLEAN,
     answer : {"yes", "no"}, file : {"ok", "rejected"},
     items : Batches(WriteEntries)]
    \cup
    [command : {"restore-config"}, dry_run : {FALSE}, force : BOOLEAN,
     answer : {"yes", "no"}, file : {"ok", "missing", "invalid"},
     items : Batches(RestoreEntries) \cup {<<>>}]

InitCli ==
    /\ fn = {}
    /\ arg = [kind |-> "none", data |-> <<>>]
    /\ ret = NoRet
    /\ client = "cli"
    /\ slave_id = 1
    /\ conn = "none"
    /\ pc = "idle"
    /\ op = NoOp
    /\ cmd = <<>>
    /\ tx = <<>>
    /\ in_buf = <<>>
    /\ unanswered = 0
    /\ response = <<>>
    /\ parsed = None
    /\ result = NoResult
    /\ printed = <<>>
    /\ steps = <<>>
    /\ delay_ms = 0
    /\ caught = "none"
    /\ cli_pc = "start"
    /\ args \in CommandLines
    /\ args.force => args.answer = "yes"
    /\ handles = 0
    /\ wire = <<>>
    /\ idx = 0
    /\ success_count = 0
    /\ failed_params = <<>>
    /\ skipped_params = <<>>
    /\ acked = <<>>
    /\ verify_raw = None
    /\ exit_code = None
    /\ pauses = <<>>
    /\ now = 0
    /\ snapshot = None
    /\ assembled = <<>>
    /\ output = None
    /\ jobs = <<>>
    /\ line = <<>>

\* the client state a command leaves alone
callVars == <<fn, arg, ret, client, slave_id, pc, op, cmd, tx, in_buf,
              unanswered, response, parsed, result, steps, delay_ms, caught,
              dataVars, haVars>>
batchVars == <<idx, success_count, failed_params, skipped_params>>

---------------------------------------------------------------------------
(* One client call on the line.  What happens on the serial port during    *)
(* the call is an event: a serial call raises before or after the request  *)
(* went out, or the request goes out and reply bytes (possibly none) are   *)
(* read.                                                                   *)

ReadbackSamples == {4, 200}

WithCrc(body) == body \o calculate_crc16(body)

\* what the device may answer to a request frame f: nothing, an exception
\* response, a cut-off frame, the echo of a write, a register value
Replies(f) ==
    { <<>>, WithCrc(<<f[1], f[2] + 128, 2>>), <<f[1], f[2]>> }
    \cup (IF f[2] = 6 THEN {f}
          ELSE { WithCrc(<<f[1], f[2], 2, v \div 256, v % 256>>) :
                   v \in ReadbackSamples })

Events(frame) ==
    IF ~frame.ok THEN { [kind |-> "struct.error", bytes |-> <<>>] }
    ELSE { [kind |-> "raise_before_write", bytes |-> <<>>],
           [kind |-> "raise_after_write", bytes |-> <<>>] }
         \cup { [kind |-> "reply", bytes |-> r] : r \in Replies(frame.bytes) }

\* the frames a call put on the line
Sent(frame, ev) ==
    IF ev.kind \in {"struct.error", "raise_before_write"} THEN <<>>
    ELSE <<frame.bytes>>

\* read_registers(function_code, address, 1) on an open port
read_registers_call(function_code, address, ev) ==
    LET frame == create_modbus_command(slave_id, function_code, address, 1)
    IN  [sent |-> Sent(frame, ev),
         result |-> IF ev.kind = "reply"
                    THEN read_registers_finish(ev.bytes).result
                    ELSE RNone]

\* read_single_register: "return result[0] if result else None"
read_single_register(address, is_holding, ev) ==
    LET r == read_registers_call(IF is_holding THEN 3 ELSE 4, address, ev)
    IN  [sent |-> r.sent,
         value |-> IF r.result.type = "list" /\ r.result.value # <<>>
                   THEN Some(r.result.value[1])
                   ELSE None]

\* test_connection: "result = self.read_input_registers(0x3104, 1);
\* return result is not None"
test_connection(ev) ==
    LET r == read_registers_call(4, 12548, ev)
    IN  [sent |-> r.sent, value |-> r.result # RNone]

\* mutant: the value and the address handed over in the wrong order
write_single_register_call_swapped(address, value, ev) ==
    LET frame == write_single_register_command(slave_id, value, address)
    IN  [sent |-> Sent(frame, ev),
         value |-> IF ev.kind = "reply"
                   THEN write_register_finish(ev.bytes).result.value
                   ELSE FALSE]

\* write_single_register(address, value) on an open port
write_single_register_call(address, value, ev) ==
    LET frame == write_single_register_command(slave_id, address, value)
    IN  [sent |-> Sent(frame, ev),
         value |-> IF ev.kind = "reply"
                   THEN write_register_finish(ev.bytes).result.value
                   ELSE FALSE]

ReadEvents(function_code, address) ==
    Events(create_modbus_command(slave_id, function_code, address, 1))

WriteEvents(address, value) ==
    Events(write_single_register_command(slave_id, address, value))


---------------------------------------------------------------------------
(* The commands.                                                           *)

Command == args.command
Items == args.items
Confirmed == args.force \/ args.answer = "yes"

\* a step that stays in the command, at the place p
Goes(p) ==
    /\ cli_pc' = p
    /\ exit_code' = exit_code
    /\ UNCHANGED <<conn, handles>>

\* "return code" before the with block is entered
ReturnOutside(code) ==
    /\ cli_pc' = "returned"
    /\ exit_code' = Some(code)
    /\ UNCHANGED <<conn, handles>>

\* "return code" inside "with self.client:", or an exception caught by the
\* command's except clause: __exit__ runs disconnect, which closes
\* serial_conn if it is open
ReturnFromWith(code) ==
    /\ cli_pc' = "returned"
    /\ exit_code' = Some(code)
    /\ conn' = IF conn = "open" THEN "closed" ELSE conn
    /\ handles' = IF conn = "open" THEN handles - 1 ELSE handles

\* connect_device: a new client, connect(), then test_connection()
connect_device ==
    /\ cli_pc = "start"
    /\ \/ \* serial.Serial raises: "Failed to connect"
          /\ ReturnOutside(1)
          /\ wire' = wire
          /\ printed' = Append(printed, "Failed to connect")
       \/ \* the port opens and the test read runs
          \E ev \in ReadEvents(4, 12548) :
            LET t == test_connection(ev)
            IN  /\ conn' = "open"
                /\ handles' = handles + 1
                /\ wire' = wire \o t.sent
                /\ IF t.value
                   THEN /\ cli_pc' = "connected"
                        /\ exit_code' = exit_code
                        /\ printed' = Append(printed, "Connected")
                   ELSE /\ cli_pc' = "returned"
                        /\ exit_code' = Some(1)
                        /\ printed' = Append(printed, "not responding")
    /\ UNCHANGED <<args, batchVars, acked, verify_raw, callVars, pauses>>

\* restore-config up to its with block: the backup file is loaded and the
\* user is asked
load_backup ==
    /\ cli_pc = "connected"
    /\ Command = "restore-config"
    /\ IF args.file = "missing"
       THEN /\ ReturnOutside(1)
            /\ printed' = Append(printed, "Backup file not found")
       ELSE IF args.file = "invalid"
       THEN /\ ReturnOutside(1)
            /\ printed' = Append(printed, "Invalid backup file format")
       ELSE IF Items = <<>>
       THEN /\ ReturnOutside(1)
            /\ printed' = Append(printed, "No parameters found in backup file")
       ELSE IF ~Confirmed
       THEN /\ ReturnOutside(0)
            /\ printed' = Append(printed, "Restore cancelled")
       ELSE /\ Goes("loaded")
            /\ printed' = printed
    /\ UNCHANGED <<args, wire, batchVars, acked, verify_raw, callVars, pauses>>

\* "with self.client:" is entered: __enter__ calls connect() again, which
\* opens the port a second time and rebinds serial_conn; the port opened by
\* connect_device is then referenced by nothing and is closed when its
\* object is finalised, at once or not before the command returns
enter_client ==
    /\ \/ cli_pc = "connected" /\ Command \in {"write", "write-config"}
       \/ cli_pc = "loaded" /\ Command = "restore-config"
    /\ \/ \* serial.Serial raises, __enter__ raises ConnectionError and the
          \* command's except clause returns 1
          /\ ReturnOutside(1)
          /\ idx' = idx
          /\ printed' = Append(printed, "Failed to connect")
       \/ /\ cli_pc' = IF Command = "restore-config" THEN "loop" ELSE "entered"
          /\ idx' = IF Command = "restore-config" THEN 1 ELSE idx
          /\ exit_code' = exit_code
          /\ conn' = "open"
          /\ handles' \in {handles, handles + 1}
          /\ printed' = printed
    /\ UNCHANGED <<args, wire, success_count, failed_params, skipped_params,
                   acked, verify_raw, callVars, pauses>>

\* cmd_write from the parameter lookup to the confirmation prompt
validate_write ==
    /\ cli_pc = "entered"
    /\ Command = "write"
    /\ LET e == Items[1]
       IN  IF IsNone(e.param)
           THEN /\ ReturnFromWith(1)
                /\ printed' = Append(printed, "is not writable")
           ELSE IF ~e.valid
           THEN /\ ReturnFromWith(1)
                /\ printed' = Append(printed, "Invalid value")
           ELSE IF args.dry_run
           THEN /\ ReturnFromWith(0)
                /\ printed' = Append(printed, "Dry run")
           ELSE IF ~Confirmed
           THEN /\ ReturnFromWith(0)
                /\ printed' = Append(printed, "Write operation cancelled")
           ELSE /\ Goes("confirmed")
                /\ printed' = printed
    /\ UNCHANGED <<args, wire, batchVars, acked, verify_raw, callVars, pauses>>

\* cmd_write: "current_raw = self.client.read_single_register(...)"
read_current ==
    /\ cli_pc = "confirmed"
    /\ Command = "write"
    /\ LET address == The(Items[1].param).address
       IN  \E ev \in ReadEvents(3, address) :
             LET r == read_single_register(address, TRUE, ev)
             IN  /\ wire' = wire \o r.sent
                 /\ printed' = IF IsNone(r.value) THEN printed
                               ELSE Append(printed, "Current value")
    /\ Goes("current_read")
    /\ UNCHANGED <<args, batchVars, acked, verify_raw, callVars, pauses>>

\* cmd_write: "success = self.client.write_single_register(...)"
write_value ==
    /\ cli_pc = "current_read"
    /\ Command = "write"
    /\ LET e == Items[1]
           address == The(e.param).address
       IN  \E ev \in WriteEvents(address, The(e.raw)) :
             LET w == write_single_register_call(address, The(e.raw), ev)
             IN  /\ wire' = wire \o w.sent
                 /\ IF w.value
                    THEN /\ Goes("acknowledged")
                         /\ acked' = Append(acked, e.name)
                         /\ printed' = Append(printed, "Write successful")
                    ELSE /\ ReturnFromWith(1)
                         /\ acked' = acked
                         /\ printed' = Append(printed, "Write failed")
    /\ UNCHANGED <<args, batchVars, verify_raw, callVars, pauses>>

\* time.sleep(ms / 1000), with the place it is called at: the frames sent
\* and the lines printed so far
Pause(ms, sent, shown) == [ms |-> ms, sent |-> Len(sent), shown |-> Len(shown)]

\* the read-back after an acknowledged write and the line it prints
VerifyLine(v, raw) ==
    IF v = raw THEN "Verified" ELSE "Verification failed"

\* mutant: a verification mismatch turned into a failure of the command
verify_write_strict ==
    /\ cli_pc = "acknowledged"
    /\ Command = "write"
    /\ LET e == Items[1]
           address == The(e.param).address
       IN  \E ev \in ReadEvents(3, address) :
             LET r == read_single_register(address, TRUE, ev)
             IN  /\ wire' = wire \o r.sent
                 /\ verify_raw' = r.value
                 /\ printed' = Append(printed, VerifyLine(r.value, e.raw))
                 /\ ReturnFromWith(IF r.value = e.raw THEN 0 ELSE 1)
    /\ pauses' = Append(pauses, Pause(500, wire, printed))
    /\ UNCHANGED <<args, batchVars, acked, callVars>>

\* cmd_write: "time.sleep(0.5)", the verification read, then "return 0"
verify_write ==
    /\ cli_pc = "acknowledged"
    /\ Command = "write"
    /\ LET e == Items[1]
           address == The(e.param).address
       IN  \E ev \in ReadEvents(3, address) :
             LET r == read_single_register(address, TRUE, ev)
             IN  /\ wire' = wire \o r.sent
                 /\ verify_raw' = r.value
                 /\ printed' = Append(printed, VerifyLine(r.value, e.raw))
    /\ pauses' = Append(pauses, Pause(500, wire, printed))
    /\ ReturnFromWith(0)
    /\ UNCHANGED <<args, batchVars, acked, callVars>>


\* mutant: --dry-run not looked at
validate_write_config_nodry ==
    /\ cli_pc = "entered"
    /\ Command = "write-config"
    /\ IF args.file = "rejected"
          \/ \E i \in 1..Len(Items) : IsNone(Items[i].param) \/ ~Items[i].valid
       THEN /\ ReturnFromWith(1)
            /\ idx' = idx
            /\ printed' = Append(printed, "Validation errors")
       ELSE IF ~Confirmed
       THEN /\ ReturnFromWith(0)
            /\ idx' = idx
            /\ printed' = Append(printed, "Configuration write cancelled")
       ELSE /\ Goes("loop")
            /\ idx' = 1
            /\ printed' = printed
    /\ UNCHANGED <<args, wire, success_count, failed_params, skipped_params,
                   acked, verify_raw, callVars, pauses>>

\* mutant: the batch refused only when none of its entries is valid
validate_write_config_any_valid ==
    /\ cli_pc = "entered"
    /\ Command = "write-config"
    /\ IF args.file = "rejected"
       THEN /\ ReturnFromWith(1)
            /\ idx' = idx
            /\ printed' = Append(printed, "No configuration")
       ELSE IF \A i \in 1..Len(Items) :
                 IsNone(Items[i].param) \/ ~Items[i].valid
       THEN /\ ReturnFromWith(1)
            /\ idx' = idx
            /\ printed' = Append(printed, "Validation errors")
       ELSE IF args.dry_run
       THEN /\ ReturnFromWith(0)
            /\ idx' = idx
            /\ printed' = Append(printed, "Dry run")
       ELSE IF ~Confirmed
       THEN /\ ReturnFromWith(0)
            /\ idx' = idx
            /\ printed' = Append(printed, "Configuration write cancelled")
       ELSE /\ Goes("loop")
            /\ idx' = 1
            /\ printed' = printed
    /\ UNCHANGED <<args, wire, success_count, failed_params, skipped_params,
                   acked, verify_raw, callVars, pauses>>

\* cmd_write_config from the collection of config_to_write to the
\* confirmation prompt: every entry is looked up and validated, and any
\* validation error returns 1 before the first write
validate_write_config ==
    /\ cli_pc = "entered"
    /\ Command = "write-config"
    /\ IF args.file = "rejected"
       THEN /\ ReturnFromWith(1)
            /\ idx' = idx
            /\ printed' = Append(printed, "No configuration")
       ELSE IF \E i \in 1..Len(Items) :
                 IsNone(Items[i].param) \/ ~Items[i].valid
       THEN /\ ReturnFromWith(1)
            /\ idx' = idx
            /\ printed' = Append(printed, "Validation errors")
       ELSE IF args.dry_run
       THEN /\ ReturnFromWith(0)
            /\ idx' = idx
            /\ printed' = Append(printed, "Dry run")
       ELSE IF ~Confirmed
       THEN /\ ReturnFromWith(0)
            /\ idx' = idx
            /\ printed' = Append(printed, "Configuration write cancelled")
       ELSE /\ Goes("loop")
            /\ idx' = 1
            /\ printed' = printed
    /\ UNCHANGED <<args, wire, success_count, failed_params, skipped_params,
                   acked, verify_raw, callVars, pauses>>

\* mutant: the verification read made after a failed write too
batch_write_all_verified(e) ==
    LET address == The(e.param).address
    IN  \E ev \in WriteEvents(address, The(e.raw)) :
          LET w == write_single_register_call(address, The(e.raw), ev)
          IN  /\ wire' = wire \o w.sent
              /\ success_count' = success_count + (IF w.value THEN 1 ELSE 0)
              /\ acked' = IF w.value THEN Append(acked, e.name) ELSE acked
              /\ failed_params' = IF w.value THEN failed_params
                                  ELSE Append(failed_params, e.name)
              /\ idx' = idx
              /\ Goes("verify")
              /\ printed' = Append(printed,
                                   IF w.value THEN "Success" ELSE "Failed")
              /\ pauses' = pauses

\* the body of both batch loops from write_single_register on: a write
\* that succeeds is counted and then verified, one that fails is recorded
\* and the loop goes on
batch_write(e) ==
    LET address == The(e.param).address
    IN  \E ev \in WriteEvents(address, The(e.raw)) :
          LET w == write_single_register_call(address, The(e.raw), ev)
          IN  /\ wire' = wire \o w.sent
              /\ IF w.value
                 THEN /\ success_count' = success_count + 1
                      /\ acked' = Append(acked, e.name)
                      /\ failed_params' = failed_params
                      /\ idx' = idx
                      /\ Goes("verify")
                      /\ printed' = Append(printed, "Success")
                      /\ pauses' = pauses
                 ELSE /\ success_count' = success_count
                      /\ acked' = acked
                      /\ failed_params' = Append(failed_params, e.name)
                      /\ idx' = idx + 1
                      /\ Goes("loop")
                      /\ printed' = Append(printed, "Failed")
                      /\ pauses' = Append(pauses,
                                          Pause(100, wire', printed'))

\* cmd_write_config: one turn of "for param, value, raw_value in
\* validated_params" up to the verification
write_next ==
    /\ cli_pc = "loop"
    /\ Command = "write-config"
    /\ idx <= Len(Items)
    /\ batch_write(Items[idx])
    /\ UNCHANGED <<args, skipped_params, verify_raw, callVars>>

\* cmd_restore_config: one turn of "for name, info in parameters.items()"
\* up to the verification
restore_next ==
    /\ cli_pc = "loop"
    /\ Command = "restore-config"
    /\ idx <= Len(Items)
    /\ LET e == Items[idx]
       IN  IF IsNone(e.param)
           THEN /\ skipped_params' = Append(skipped_params, e.name)
                /\ idx' = idx + 1
                /\ Goes("loop")
                /\ printed' = Append(printed, "Skipping")
                /\ UNCHANGED <<wire, success_count, failed_params, acked,
                               pauses>>
           ELSE IF IsNone(e.raw)
           THEN \* info['raw_value'] raises KeyError, caught by the
                \* command's "except Exception"
                /\ ReturnFromWith(1)
                /\ printed' = Append(printed, "Restore failed")
                /\ UNCHANGED <<wire, idx, success_count, failed_params,
                               skipped_params, acked, pauses>>
           ELSE /\ batch_write(e)
                /\ skipped_params' = skipped_params
    /\ UNCHANGED <<args, verify_raw, callVars>>

\* both batch loops: "time.sleep(0.2)" and the verification read after a
\* successful write, then "time.sleep(0.1)" and the next turn
verify_next ==
    /\ cli_pc = "verify"
    /\ LET e == Items[idx]
           address == The(e.param).address
       IN  \E ev \in ReadEvents(3, address) :
             LET r == read_single_register(address, TRUE, ev)
             IN  /\ wire' = wire \o r.sent
                 /\ verify_raw' = r.value
                 /\ printed' = Append(printed, VerifyLine(r.value, e.raw))
                 /\ pauses' = pauses \o <<Pause(200, wire, printed),
                                           Pause(100, wire', printed')>>
    /\ idx' = idx + 1
    /\ Goes("loop")
    /\ UNCHANGED <<args, success_count, failed_params, skipped_params, acked,
                   callVars>>

\* cmd_write_config after the loop: 0 when every parameter was written
summary_write_config ==
    /\ cli_pc = "loop"
    /\ Command = "write-config"
    /\ idx > Len(Items)
    /\ ReturnFromWith(IF success_count = Len(Items) THEN 0 ELSE 1)
    /\ printed' = Append(printed, "Write complete")
    /\ UNCHANGED <<args, wire, batchVars, acked, verify_raw, callVars, pauses>>

\* mutant: 0 only when no parameter failed
summary_restore_config_strict ==
    /\ cli_pc = "loop"
    /\ Command = "restore-config"
    /\ idx > Len(Items)
    /\ ReturnFromWith(IF failed_params = <<>> THEN 0 ELSE 1)
    /\ printed' = Append(printed, "Restore complete")
    /\ UNCHANGED <<args, wire, batchVars, acked, verify_raw, callVars, pauses>>

\* cmd_restore_config after the loop: "return 0 if success_count > 0 else 1"
summary_restore_config ==
    /\ cli_pc = "loop"
    /\ Command = "restore-config"
    /\ idx > Len(Items)
    /\ ReturnFromWith(IF success_count > 0 THEN 0 ELSE 1)
    /\ printed' = Append(printed, "Restore complete")
    /\ UNCHANGED <<args, wire, batchVars, acked, verify_raw, callVars, pauses>>

NextCli ==
    \/ connect_device
    \/ load_backup
    \/ enter_client
    \/ validate_write
    \/ read_current
    \/ write_value
    \/ verify_write
    \/ validate_write_config
    \/ write_next
    \/ restore_next
    \/ verify_next
    \/ summary_write_config
    \/ summary_restore_config

SpecCli == InitCli /\ [][NextCli]_vars


---------------------------------------------------------------------------
(* Claims about the commands (specification SpecCli).                      *)

IsWriteFrame(f) == Len(f) >= 2 /\ f[2] \in {6, 16}
WriteFrames(w) == SelectSeq(w, IsWriteFrame)
Returned == cli_pc = "returned"
IsBatch == Command \in {"write-config", "restore-config"}
\* the command went into its with block and left it again
LeftWith == Returned /\ conn = "closed"
\* a writable parameter was given a value that fails validation
HasInvalidValue ==
    /\ Command \in {"write", "write-config"}
    /\ \E i \in 1..Len(Items) : ~IsNone(Items[i].param) /\ ~Items[i].valid
AllValid ==
    /\ args.file = "ok"
    /\ \A i \in 1..Len(Items) : ~IsNone(Items[i].param) /\ Items[i].valid

\* C11 (as claimed): on the write path, when the value given fails
\* validation, nothing was written to the serial line between the start
\* of the command and its return.
C11_NoBytesForInvalidValue ==
    (Returned /\ HasInvalidValue
       /\ Last(printed) \in {"Invalid value", "Validation errors"})
      => wire = <<>>

\* C12: a write that write_single_register reported acknowledged makes
\* the write command return 0 whatever the verification read returned,
\* and in a batch the parameter stays counted as written: the count of
\* successes is the number of acknowledged writes before and after every
\* verification.
C12_VerificationMismatchIsWarning ==
    /\ (Command = "write" /\ Returned /\ acked # <<>>) => exit_code = Some(0)
    /\ (Command = "write" /\ Returned /\ acked # <<>>
          /\ verify_raw # Items[1].raw)
         => Last(printed) = "Verification failed"
    /\ IsBatch => success_count = Len(acked)

\* C12 witness: write returned 0 although the read-back gave no value or
\* another value than the one written.
C12_Witness ==
    /\ Command = "write" /\ Returned
    /\ acked = <<"battery_capacity">>
    /\ verify_raw # Items[1].raw
    /\ exit_code = Some(0)
    /\ Last(printed) = "Verification failed"

Attempted == { acked[i] : i \in 1..Len(acked) }
               \cup { failed_params[i] : i \in 1..Len(failed_params) }

\* C13 (as claimed): a batch that got to work on its parameters attempts
\* every parameter that can be written, whatever happened to the others.
C13_BatchBestEffort ==
    (IsBatch /\ LeftWith /\ args.file = "ok" /\ Confirmed /\ ~args.dry_run)
      => \A i \in 1..Len(Items) :
           (~IsNone(Items[i].param) /\ Items[i].valid /\ ~IsNone(Items[i].raw))
             => Items[i].name \in Attempted

\* C14 (as claimed): when the command returns no serial port opened
\* during the command is still open.
C14_HandleReleased ==
    Returned => handles = 0

\* C15: with --dry-run write and write-config never send a write frame
\* (function code 0x06 or 0x10), and a command whose validation ran (the
\* connection test passed and the with block was entered) returns 0
\* when every parameter is writable and every value passed.
C15_DryRunWritesNothing ==
    args.dry_run
      => /\ WriteFrames(wire) = <<>>
         /\ (LeftWith /\ AllValid) => exit_code = Some(0)

\* C15 witness: a dry run of write-config on valid values returned 0; the
\* only frame on the line is the read of the connection test.
C15_Witness ==
    /\ Command = "write-config" /\ args.dry_run /\ LeftWith /\ AllValid
    /\ exit_code = Some(0)
    /\ Len(wire) = 1 /\ wire[1][2] = 4


\* q is r with some elements left out
RECURSIVE IsSubseq(_, _)
IsSubseq(q, r) ==
    IF q = <<>> THEN TRUE
    ELSE IF r = <<>> THEN FALSE
    ELSE IF Head(q) = Head(r) THEN IsSubseq(Tail(q), Tail(r))
    ELSE IsSubseq(q, Tail(r))

IsWritable(e) == ~IsNone(e.param)
\* the write-single-register request carrying e's raw value to e's address
ReplayFrame(e) ==
    write_single_register_command(slave_id, The(e.param).address, The(e.raw))
\* a request frame exists for the entry
Replayable(e) ==
    IsWritable(e) /\ ~IsNone(e.raw) /\ The(e.raw) \in 0..65535
ReplayFrames(q) ==
    [k \in 1..Len(SelectSeq(q, Replayable)) |->
       ReplayFrame(SelectSeq(q, Replayable)[k]).bytes]
Names(q) == [k \in 1..Len(q) |-> q[k].name]
NotWritable(e) == ~IsWritable(e)
\* the entries the restore loop is through with
Restored ==
    IF cli_pc = "verify" THEN SubSeq(Items, 1, idx)
    ELSE IF cli_pc \in {"loop", "returned"} /\ idx >= 1
    THEN SubSeq(Items, 1, idx - 1)
    ELSE <<>>

---------------------------------------------------------------------------
(* TracerSolarChargerSensor.native_value (homeassistant/.../sensor.py).    *)
(*                                                                         *)
(* A register value is an integer 0..65535.  A combined value needs 32     *)
(* bits and is kept as two 16-bit halves: PyLong(hi, lo) is the Python int *)
(* hi * 65536 + lo.  A decoded number is kept as the decimal it prints as: *)
(* Num(f, w, h) is w + h / 100 with w and h of one sign and |h| < 100, a   *)
(* float when f holds and an int otherwise.  With the scales 1 and 0.01    *)
(* and the offset -273.15 of SENSOR_TYPES every product and sum is a       *)
(* multiple of 0.01 and round(x, 2) returns the double nearest to it.      *)

PyLong(hi, lo) == [hi |-> hi, lo |-> lo]
Num(f, w, h) == [type |-> IF f THEN "float" ELSE "int", whole |-> w, hundredths |-> h]
RStr(t) == [type |-> "str", value |-> t]

\* a Python number literal of a sensor configuration, in hundredths
PyInt(n) == [float |-> FALSE, h |-> n * 100]
PyFloat(h) == [float |-> TRUE, h |-> h]

RECURSIVE BitOr(_, _)
BitOr(a, b) ==
    IF a = 0 THEN b
    ELSE IF b = 0 THEN a
    ELSE (IF (a % 2) + (b % 2) > 0 THEN 1 ELSE 0) + 2 * BitOr(a \div 2, b \div 2)

\* mutant: the two words combined the wrong way round
combined_value_swapped(high_value, raw_value) ==
    PyLong(BitOr(raw_value, 0), BitOr(0, high_value))

\* "combined_value = (high_value << 16) | raw_value": the shift moves
\* high_value into the upper half, the or fills the lower half
combined_value(high_value, raw_value) ==
    PyLong(BitOr(high_value, 0), BitOr(0, raw_value))

\* value & (1 << bit) is not zero
bit_is_set(value, bit) ==
    IF bit < 16 THEN BitAnd(value.lo, 2 ^ bit) # 0
    ELSE BitAnd(value.hi, 2 ^ (bit - 16)) # 0

\* str(value) and f"{value}" of an int
Pad2(n) == IF n < 10 THEN "0" \o IntToStr(n) ELSE IntToStr(n)
LongStr(value) ==
    LET t == value.hi * 36 + value.lo
        q == value.hi * 655 + t \div 100
    IN  IF q = 0 THEN IntToStr(t % 100) ELSE IntToStr(q) \o Pad2(t % 100)

\* ", ".join(labels)
RECURSIVE Join(_)
Join(labels) ==
    IF labels = <<>> THEN ""
    ELSE IF Len(labels) = 1 THEN labels[1]
    ELSE labels[1] \o ", " \o Join(Tail(labels))

\* const.py; a dict of bits is kept as its items in insertion order
BATTERY_STATUS_BITS ==
    << <<0, "Normal">>, <<1, "Over Temperature">>, <<2, "Low Temperature">>,
       <<3, "Over Voltage">>, <<4, "Under Voltage">>, <<5, "Over Current">>,
       <<6, "Over Discharge">>,
       <<7, "Battery Inner Resistance Abnormal">>,
       <<8, "Wrong Identification for Rated Voltage">> >>

CHARGING_STATUS_BITS ==
    << <<0, "Charging Deactivated">>, <<1, "Charging Activated">>,
       <<2, "MPPT Charging Mode">>, <<3, "Equalizing Charging Mode">>,
       <<4, "Boost Charging Mode">>, <<5, "Floating Charging Mode">>,
       <<6, "Current Limiting">> >>

LOAD_STATUS_BITS ==
    << <<0, "Load Disconnected">>, <<1, "Load Connected">>,
       <<2, "Output Over Voltage">>, <<3, "Boost Over Voltage">>,
       <<4, "High Voltage Side Short Circuit">>, <<5, "Input Over Voltage">>,
       <<6, "Output Over Current">>, <<7, "Input Over Current">> >>

\* "for bit, description in bit_definitions.items(): if value & (1 << bit):
\* active_bits.append(description)" over the items from position k on
RECURSIVE active_bits(_, _, _)
active_bits(value, bit_definitions, k) ==
    IF k > Len(bit_definitions) THEN <<>>
    ELSE (IF bit_is_set(value, bit_definitions[k][1])
          THEN <<bit_definitions[k][2]>> ELSE <<>>)
         \o active_bits(value, bit_definitions, k + 1)

\* mutant: the bit number used as the mask
format_bitfield_mask(value, bit_definitions) ==
    LET hit == SelectSeq(bit_definitions,
                         LAMBDA d : BitAnd(value.lo, d[1]) # 0)
    IN  IF hit # <<>> THEN Join([k \in 1..Len(hit) |-> hit[k][2]])
        ELSE "Normal"

\* TracerSolarChargerSensor._format_bitfield
format_bitfield(value, bit_definitions) ==
    LET active == active_bits(value, bit_definitions, 1)
    IN  IF active # <<>> THEN Join(active) ELSE "Normal"

\* TracerSolarChargerSensor._format_status_value
format_status_value(sensor_key, raw_value) ==
    IF sensor_key = "battery_status"
    THEN format_bitfield(raw_value, BATTERY_STATUS_BITS)
    ELSE IF sensor_key = "charging_status"
    THEN format_bitfield(raw_value, CHARGING_STATUS_BITS)
    ELSE IF sensor_key = "load_status"
    THEN format_bitfield(raw_value, LOAD_STATUS_BITS)
    ELSE LongStr(raw_value)

\* w + h / 100 brought to one sign, for -199 <= h <= 199
Normal(f, w, h) ==
    LET w1 == IF h >= 100 THEN w + 1 ELSE IF h <= -100 THEN w - 1 ELSE w
        h1 == IF h >= 100 THEN h - 100 ELSE IF h <= -100 THEN h + 100 ELSE h
    IN  IF w1 > 0 /\ h1 < 0 THEN Num(f, w1 - 1, h1 + 100)
        ELSE IF w1 < 0 /\ h1 > 0 THEN Num(f, w1 + 1, h1 - 100)
        ELSE Num(f, w1, h1)

\* mutant: the product cut down to a whole number
scaled_value_floor(raw_value, scale) ==
    LET t == raw_value.hi * scale.h * 36 + raw_value.lo * scale.h
    IN  Normal(scale.float, raw_value.hi * scale.h * 655 + t \div 100, 0)

\* "scaled_value = raw_value * self._sensor_config.get('scale', 1)" for a
\* scale of scale.h hundredths: 65536 * hi * h = 100 * (655 * hi * h)
\* + 36 * hi * h
scaled_value(raw_value, scale) ==
    LET t == raw_value.hi * scale.h * 36 + raw_value.lo * scale.h
    IN  Normal(scale.float, raw_value.hi * scale.h * 655 + t \div 100, t % 100)

\* whole part and hundredths of a number of hundredths, of its sign
WholeOf(h) == IF h >= 0 THEN h \div 100 ELSE -((-h) \div 100)
HundredthsOf(h) == IF h >= 0 THEN h % 100 ELSE -((-h) % 100)

\* mutant: the offset taken with the wrong sign
plus_offset_negated(v, offset) ==
    Normal(v.type = "float" \/ offset.float,
           v.whole - WholeOf(offset.h),
           v.hundredths - HundredthsOf(offset.h))

\* "scaled_value += self._sensor_config['offset']"
plus_offset(v, offset) ==
    Normal(v.type = "float" \/ offset.float,
           v.whole + WholeOf(offset.h),
           v.hundredths + HundredthsOf(offset.h))


\* "round(scaled_value, 2)": an int stays the int, a float becomes the
\* double nearest to the value's two-place decimal
round_2(v) == Num(v.type = "float", v.whole, v.hundredths)

\* dict.get on the register data: None when the address is missing
DataGet(data, address) ==
    IF address \in DOMAIN data THEN Some(data[address]) ELSE None

\* mutant: a value outside the table shown as the bare number
enum_get_bare(enum_values, raw_value) ==
    IF raw_value.hi = 0 /\ raw_value.lo \in DOMAIN enum_values
    THEN enum_values[raw_value.lo]
    ELSE LongStr(raw_value)

\* "enum_values.get(raw_value, f'Unknown ({raw_value})')"
enum_get(enum_values, raw_value) ==
    IF raw_value.hi = 0 /\ raw_value.lo \in DOMAIN enum_values
    THEN enum_values[raw_value.lo]
    ELSE "Unknown (" \o LongStr(raw_value) \o ")"

\* TracerSolarChargerSensor.native_value for the sensor sensor_key with
\* configuration config when coordinator.data is data
native_value(sensor_key, config, data) ==
    IF DOMAIN data = {} THEN RNone
    ELSE IF IsNone(DataGet(data, config.address)) THEN RNone
    ELSE
      LET low == data[config.address]
          high_value ==
            IF "high_address" \in DOMAIN config
               /\ config.high_address \in DOMAIN data
            THEN data[config.high_address] ELSE 0
          raw_value == IF GetFlag(config, "combine_registers")
                       THEN combined_value(high_value, low)
                       ELSE PyLong(0, low)
          kind == Get(config, "type", "")
      IN  IF kind = "status"
          THEN RStr(format_status_value(sensor_key, raw_value))
          ELSE IF kind = "enum"
          THEN RStr(enum_get(Get(config, "enum_values", <<>>), raw_value))
          ELSE
            LET scaled == scaled_value(raw_value, Get(config, "scale", PyInt(1)))
            IN  round_2(IF "offset" \in DOMAIN config
                        THEN plus_offset(scaled, config.offset)
                        ELSE scaled)

---------------------------------------------------------------------------
(* Specification SpecSensor: native_value of one sensor on one reading.    *)

\* entries of SENSOR_TYPES (the keys native_value reads), and two
\* configurations combining registers ahead of a status and an enum
SensorSamples ==
    { <<"pv_voltage", [address |-> 12544, scale |-> PyFloat(1)]>>,
      <<"pv_power", [address |-> 12546, scale |-> PyFloat(1),
                     combine_registers |-> TRUE, high_address |-> 12547]>>,
      <<"battery_soc", [address |-> 12570, scale |-> PyInt(1)]>>,
      <<"battery_temp", [address |-> 12560, scale |-> PyFloat(1),
                         offset |-> PyFloat(-27315)]>>,
      <<"battery_status", [address |-> 12800, scale |-> PyInt(1),
                           type |-> "status"]>>,
      <<"charging_status", [address |-> 12801, scale |-> PyInt(1),
                            type |-> "status"]>>,
      <<"load_status", [address |-> 12802, scale |-> PyInt(1),
                        type |-> "status"]>>,
      <<"battery_type", [address |-> 36864, scale |-> PyInt(1),
                         type |-> "enum",
                         enum_values |-> (0 :> "User Defined") @@ (1 :> "Sealed")
                            @@ (2 :> "GEL") @@ (3 :> "Flooded")
                            @@ (4 :> "LiFePO4")]>>,
      <<"battery_status", [address |-> 12800, type |-> "status",
                           combine_registers |-> TRUE,
                           high_address |-> 12801]>>,
      <<"battery_type", [address |-> 36864, type |-> "enum",
                         combine_registers |-> TRUE, high_address |-> 36865,
                         enum_values |-> (0 :> "User Defined")
                            @@ (4 :> "LiFePO4")]>> }

LowSamples == {0, 1, 4, 5, 99, 511, 512, 2456, 4660, 27314, 30000, 65535}
HighSamples == {0, 1, 32768, 65535}

\* coordinator.data: nothing read, the low word alone, the high word (or
\* the next register) alone, or both words
Readings(config) ==
    { [a \in {} |-> 0] }
    \cup { (config.address :> low) : low \in LowSamples }
    \cup { (Get(config, "high_address", config.address + 1) :> high) :
             high \in HighSamples }
    \cup { (config.address :> low)
             @@ (Get(config, "high_address", config.address + 1) :> high) :
             low \in LowSamples, high \in HighSamples }

InitSensor ==
    /\ fn = {}
    /\ arg \in UNION { { [kind |-> "sensor", key |-> c[1], config |-> c[2],
                            data |-> d] : d \in Readings(c[2]) } :
                        c \in SensorSamples }
    /\ ret = NoRet
    /\ ClientIdle

Apply_native_value ==
    /\ arg.kind = "sensor"
    /\ Apply("native_value", native_value(arg.key, arg.config, arg.data))

NextSensor == Apply_native_value

SpecSensor == InitSensor /\ [][NextSensor]_vars


---------------------------------------------------------------------------
(* Claims about native_value (specification SpecSensor).                   *)

Decoded == Applied("native_value")
SensorConfig == arg.config
HasReading == SensorConfig.address \in DOMAIN arg.data
LowWord == arg.data[SensorConfig.address]
HighWord == Get(arg.data, Get(SensorConfig, "high_address", -1), 0)
IsCombined == GetFlag(SensorConfig, "combine_registers")
IsLinear == Get(SensorConfig, "type", "linear") \notin {"status", "enum"}

\* r is the number t / 100 for an integer t
IsHundredths(r, t) ==
    /\ r.whole = (IF t >= 0 THEN t \div 100 ELSE -((-t) \div 100))
    /\ r.hundredths = (IF t >= 0 THEN t % 100 ELSE -((-t) % 100))

\* r.whole * 100 + r.hundredths is high * 65536 + low, compared half by
\* half
IsHundredthsOfWords(r, high, low) ==
    LET a == r.whole \div 65536
        b == r.whole % 65536
        c == b * 100 + r.hundredths
    IN  /\ r.whole >= 0 /\ r.hundredths \in 0..99
        /\ c % 65536 = low
        /\ a * 100 + c \div 65536 = high

\* C17: a linear parameter decodes to raw * scale, plus the offset when
\* one is declared, to two decimal places; a parameter with a high
\* address decodes the combined 32-bit value; raw 2456 at scale 0.01
\* decodes to 24.56.
C17_LinearDecoding ==
    (Decoded /\ HasReading /\ IsLinear)
      => LET r == ret["native_value"]
             scale == SensorConfig.scale
             off == IF "offset" \in DOMAIN SensorConfig
                    THEN SensorConfig.offset.h ELSE 0
         IN  /\ r.type = (IF scale.float \/ "offset" \in DOMAIN SensorConfig
                          THEN "float" ELSE "int")
             /\ IF IsCombined
                THEN scale.h = 1 /\ off = 0
                     /\ IsHundredthsOfWords(r, HighWord, LowWord)
                ELSE IsHundredths(r, LowWord * scale.h + off)
             /\ (arg.key = "pv_voltage" /\ LowWord = 2456)
                  => r = Num(TRUE, 24, 56)

\* C17 witness: pv_voltage read as 2456 was decoded to 24.56.
C17_Witness ==
    /\ Decoded /\ arg.key = "pv_voltage"
    /\ arg.data = (12544 :> 2456)
    /\ ret["native_value"] = Num(TRUE, 24, 56)

IsKelvinExample ==
    /\ Decoded /\ arg.key = "battery_temp"
    /\ SensorConfig.scale = PyFloat(1) /\ SensorConfig.offset = PyFloat(-27315)
    /\ HasReading /\ LowWord = 30000

\* C18 (as claimed): raw 30000 at scale 0.01 with offset -273.15 decodes
\* to -253.15.
C18_AsClaimed ==
    IsKelvinExample => ret["native_value"] = Num(TRUE, -253, -15)

\* C18: raw 30000 at scale 0.01 with offset -273.15 (battery_temp)
\* decodes to 26.85.
C18_KelvinExample ==
    IsKelvinExample => ret["native_value"] = Num(TRUE, 26, 85)

\* C18 witness: battery_temp read as 30000 was decoded.
C18_Witness ==
    /\ IsKelvinExample
    /\ ret["native_value"].type = "float"
    /\ ret["native_value"].whole = 26

\* the decimal digits of high * 65536 + low, by long division of the two
\* halves by ten
RECURSIVE WordsToStr(_, _)
WordsToStr(high, low) ==
    LET rest == (high % 10) * 65536 + low
    IN  IF high = 0 /\ low < 10 THEN DigitChars[low + 1]
        ELSE WordsToStr(high \div 10 + (rest \div 10) \div 65536,
                        (rest \div 10) % 65536)
               \o DigitChars[(rest % 10) + 1]

\* C19: for a parameter with a high address every decoding step works on
\* (high << 16) | low = high * 65536 + low, for all register values low
\* and high: the linear value is that number times the scale, the enum
\* lookup and its "Unknown (<raw>)" text use that number, the bit tests
\* see low in bits 0..15; low = 0x1234, high = 0x0001 gives 70196.
C19_CombinedBeforeDecoding ==
    (Decoded /\ HasReading /\ IsCombined)
      => LET r == ret["native_value"]
             kind == Get(SensorConfig, "type", "linear")
         IN  /\ kind = "linear"
                  => IsHundredthsOfWords(r, HighWord, LowWord)
             /\ kind = "enum"
                  => r = RStr(IF HighWord = 0
                                 /\ LowWord \in DOMAIN SensorConfig.enum_values
                              THEN SensorConfig.enum_values[LowWord]
                              ELSE "Unknown (" \o WordsToStr(HighWord, LowWord)
                                     \o ")")
             /\ (kind = "status" /\ LowWord = 0) => r = RStr("Normal")
             /\ (kind = "status" /\ LowWord = 4) => r = RStr("Low Temperature")
             /\ (kind = "enum" /\ LowWord = 4660 /\ HighWord = 1)
                  => r = RStr("Unknown (70196)")
             /\ (kind = "linear" /\ LowWord = 4660 /\ HighWord = 1)
                  => r = Num(TRUE, 701, 96)

\* C19 witness: pv_power read as low 0x1234 and high 0x0001 was decoded
\* from 70196.
C19_Witness ==
    /\ Decoded /\ arg.key = "pv_power"
    /\ arg.data = (12546 :> 4660) @@ (12547 :> 1)
    /\ ret["native_value"] = Num(TRUE, 701, 96)

StatusTable(key) ==
    IF key = "battery_status" THEN BATTERY_STATUS_BITS
    ELSE IF key = "charging_status" THEN CHARGING_STATUS_BITS
    ELSE LOAD_STATUS_BITS

\* the labels of the bits b..15 that the table defines and that are set
\* in the register value v, lowest bit first
RECURSIVE SetLabels(_, _, _)
SetLabels(table, v, b) ==
    IF b > 15 THEN <<>>
    ELSE LET defs == SelectSeq(table, LAMBDA d : d[1] = b)
         IN  (IF defs # <<>> /\ (v \div (2 ^ b)) % 2 = 1
              THEN <<defs[1][2]>> ELSE <<>>)
             \o SetLabels(table, v, b + 1)

RECURSIVE CommaJoined(_, _)
CommaJoined(labels, k) ==
    IF k = Len(labels) THEN labels[k]
    ELSE labels[k] \o ", " \o CommaJoined(labels, k + 1)

\* C20: a status register decodes to the labels of exactly the defined
\* bits that are set, in ascending bit order, joined by ", ", and to
\* "Normal" when no defined bit is set (battery_status raw 0); a bit
\* without a definition adds nothing.
C20_BitfieldLabels ==
    (Decoded /\ HasReading /\ Get(SensorConfig, "type", "linear") = "status")
      => LET labels == SetLabels(StatusTable(arg.key), LowWord, 0)
         IN  /\ ret["native_value"] =
                  RStr(IF labels = <<>> THEN "Normal"
                       ELSE CommaJoined(labels, 1))
             /\ (arg.key = "battery_status" /\ LowWord \in {0, 512})
                  => ret["native_value"] = RStr("Normal")

\* C20 witness: battery_status read as 5 (bits 0 and 2) was decoded.
C20_Witness ==
    /\ Decoded /\ arg.key = "battery_status"
    /\ arg.data = (12800 :> 5)
    /\ ret["native_value"] = RStr("Normal, Low Temperature")

\* C21: an enum parameter decodes to the label of its table when the raw
\* integer is a key of the table and to "Unknown (<raw>)" otherwise;
\* battery_type raw 4 decodes to "LiFePO4" and raw 99 to "Unknown (99)".
C21_EnumDecoding ==
    (Decoded /\ HasReading /\ Get(SensorConfig, "type", "linear") = "enum")
      => LET r == ret["native_value"]
             table == SensorConfig.enum_values
             high == IF IsCombined THEN HighWord ELSE 0
         IN  /\ (high = 0 /\ LowWord \in DOMAIN table)
                  => r = RStr(table[LowWord])
             /\ ~(high = 0 /\ LowWord \in DOMAIN table)
                  => r = RStr("Unknown (" \o WordsToStr(high, LowWord) \o ")")
             /\ (~IsCombined /\ LowWord = 4) => r = RStr("LiFePO4")
             /\ (~IsCombined /\ LowWord = 99) => r = RStr("Unknown (99)")

\* C21 witness: battery_type read as 99, a value outside its table, was
\* decoded.
C21_Witness ==
    /\ Decoded /\ arg.key = "battery_type" /\ ~IsCombined
    /\ arg.data = (36864 :> 99)
    /\ ret["native_value"] = RStr("Unknown (99)")

---------------------------------------------------------------------------
(* DeviceDataManager and DeviceSnapshot (src/src/models/device_data.py).   *)
(*                                                                         *)
(* A dict of register reads is kept as its items in insertion order, a     *)
(* sequence of <<address, value>> pairs with distinct addresses.  A        *)
(* datetime is a reading of the clock, an integer.  The register table     *)
(* and format_value live in parameter_definitions, which device_data.py    *)
(* imports; they are modelled from the decoding contract.                  *)

\* f"{n:04x}" for n >= 0
LowerHexChars == <<"0", "1", "2", "3", "4", "5", "6", "7",
                   "8", "9", "a", "b", "c", "d", "e", "f">>

RECURSIVE LowerHexDigits(_)
LowerHexDigits(n) ==
    IF n < 16 THEN LowerHexChars[n + 1]
    ELSE LowerHexDigits(n \div 16) \o LowerHexChars[(n % 16) + 1]

hex_04x(n) ==
    (IF n < 16 THEN "000" ELSE IF n < 256 THEN "00"
     ELSE IF n < 4096 THEN "0" ELSE "") \o LowerHexDigits(n)

\* the name the register table gives register 0x3201: the one the decoding
\* contract lists, or the one get_summary looks up
ChargingNames == {"charging_status", "charging_equipment_status"}

\* the register table: definitions by address and bank
all_parameters(charging_name) ==
    << [address |-> 12544, is_holding |-> FALSE, name |-> "pv_voltage",
        description |-> "PV Array Voltage", unit |-> "V", category |-> "pv",
        kind |-> "linear", scale |-> PyFloat(1)],
       [address |-> 12570, is_holding |-> FALSE, name |-> "battery_soc",
        description |-> "Battery SOC", unit |-> "%", category |-> "battery",
        kind |-> "linear", scale |-> PyInt(1)],
       [address |-> 12800, is_holding |-> FALSE, name |-> "battery_status",
        description |-> "Battery Status", unit |-> "", category |-> "system",
        kind |-> "bitfield", bits |-> BATTERY_STATUS_BITS],
       [address |-> 12801, is_holding |-> FALSE, name |-> charging_name,
        description |-> "Charging Equipment Status", unit |-> "",
        category |-> "system",
        kind |-> "bitfield", bits |-> CHARGING_STATUS_BITS],
       [address |-> 36864, is_holding |-> TRUE, name |-> "battery_type",
        description |-> "Battery Type", unit |-> "", category |-> "config",
        kind |-> "enum",
        enum_values |-> (0 :> "User Defined") @@ (1 :> "Sealed")
                           @@ (2 :> "GEL") @@ (3 :> "Flooded")
                           @@ (4 :> "LiFePO4")] >>

\* decode(definition, raw): enum, bitfield or linear
decode(definition, raw_value) ==
    IF definition.kind = "enum"
    THEN RStr(enum_get(definition.enum_values, PyLong(0, raw_value)))
    ELSE IF definition.kind = "bitfield"
    THEN RStr(format_bitfield(PyLong(0, raw_value), definition.bits))
    ELSE round_2(scaled_value(PyLong(0, raw_value), definition.scale))

\* format_value(address, raw_value, is_holding): the decoded fields of a
\* register the table knows, a description alone of one it does not
format_value(table, address, raw_value, is_holding) ==
    LET known == SelectSeq(table, LAMBDA d : d.address = address
                                              /\ d.is_holding = is_holding)
    IN  IF known = <<>>
        THEN [description |-> "Unknown parameter 0x" \o Hex04(address)]
        ELSE [name |-> known[1].name,
              description |-> known[1].description,
              formatted |-> decode(known[1], raw_value),
              unit |-> known[1].unit,
              category |-> known[1].category]

\* a Python int kept as a number
IntValue(n) == Num(FALSE, n, 0)

ParameterReading(address, name, description, raw_value, formatted_value, unit, category, timestamp) ==
    [address |-> address, name |-> name, description |-> description,
     raw_value |-> raw_value, formatted_value |-> formatted_value,
     unit |-> unit, category |-> category, timestamp |-> timestamp]

\* mutant: a register without a definition is dropped
create_parameter_reading_known(table, address, raw_value, is_holding, t) ==
    LET formatted_data == format_value(table, address, raw_value, is_holding)
    IN  IF "name" \notin DOMAIN formatted_data
        THEN None
        ELSE Some(ParameterReading(address, formatted_data.name,
                                   formatted_data.description, raw_value,
                                   formatted_data.formatted,
                                   formatted_data.unit,
                                   formatted_data.category, t))

\* DeviceDataManager.create_parameter_reading when datetime.now() reads t
create_parameter_reading(table, address, raw_value, is_holding, t) ==
    LET formatted_data == format_value(table, address, raw_value, is_holding)
    IN  IF "name" \notin DOMAIN formatted_data
        THEN Some(ParameterReading(address, "unknown_0x" \o hex_04x(address),
                                   formatted_data.description, raw_value,
                                   IntValue(raw_value), "", "unknown", t))
        ELSE Some(ParameterReading(address, formatted_data.name,
                                   formatted_data.description, raw_value,
                                   formatted_data.formatted,
                                   formatted_data.unit,
                                   formatted_data.category, t))

\* DeviceDataManager.__init__: self.device_info
device_info ==
    [model |-> "Tracer3210AN", protocol |-> "Modbus RTU", slave_id |-> 1,
     baudrate |-> 115200]

\* "for address, value in data.items(): param = create_parameter_reading(
\* ...); if param: parameters.append(param)" from item k on; clock[k + base]
\* is what datetime.now() reads in the turn of item k
RECURSIVE readings_of(_, _, _, _, _, _)
readings_of(table, data, is_holding, clock, base, k) ==
    IF k > Len(data) THEN <<>>
    ELSE LET param == create_parameter_reading(table, data[k][1], data[k][2],
                                               is_holding, clock[base + k])
         IN  (IF param # None THEN <<The(param)>> ELSE <<>>)
             \o readings_of(table, data, is_holding, clock, base, k + 1)

DeviceSnapshot(id, timestamp, info, parameters) ==
    [id |-> id, timestamp |-> timestamp, device_info |-> info,
     parameters |-> parameters]

\* mutant: the list of readings kept from call to call, so that a later
\* call returns the earlier readings again
create_device_snapshot_shared(table, id, register_data, holding_data, clock) ==
    LET fresh == readings_of(table, register_data, FALSE, clock, 0, 1)
                 \o readings_of(table, holding_data, TRUE, clock,
                                Len(register_data), 1)
    IN  DeviceSnapshot(id, clock[Len(clock)], device_info,
                       IF id > 1 THEN fresh \o fresh ELSE fresh)

\* DeviceDataManager.create_device_snapshot; id tells the objects apart,
\* clock holds the readings of datetime.now() in call order
create_device_snapshot(table, id, register_data, holding_data, clock) ==
    DeviceSnapshot(id, clock[Len(clock)], device_info,
                   readings_of(table, register_data, FALSE, clock, 0, 1)
                   \o readings_of(table, holding_data, TRUE, clock,
                                  Len(register_data), 1))

\* DeviceSnapshot.get_by_category
get_by_category(s, category) ==
    SelectSeq(s.parameters, LAMBDA p : p.category = category)

\* DeviceSnapshot.get_by_name: the first reading of that name, or None
get_by_name(s, name) ==
    LET named == SelectSeq(s.parameters, LAMBDA p : p.name = name)
    IN  IF named = <<>> THEN None ELSE Some(named[1])

key_params ==
    <<"pv_voltage", "pv_current", "battery_voltage", "battery_current",
      "load_voltage", "load_current", "battery_soc", "battery_temp">>

\* the entries of "for param_name in key_params" from position k on
RECURSIVE key_summary(_, _)
key_summary(s, k) ==
    IF k > Len(key_params) THEN [n \in {} |-> 0]
    ELSE LET param == get_by_name(s, key_params[k])
         IN  (IF param # None
              THEN key_params[k] :> [value |-> The(param).formatted_value,
                                     unit |-> The(param).unit]
              ELSE [n \in {} |-> 0])
             @@ key_summary(s, k + 1)

\* the status entry of get_summary: summary[key] = param.formatted_value
\* for the reading named name
status_summary(s, key, name) ==
    LET param == get_by_name(s, name)
    IN  IF param # None THEN key :> The(param).formatted_value
        ELSE [n \in {} |-> 0]

\* mutant: the charging status looked up under the key it is stored as
get_summary_same_name(s) ==
    key_summary(s, 1)
    @@ status_summary(s, "battery_status", "battery_status")
    @@ status_summary(s, "charging_status", "charging_status")

\* DeviceSnapshot.get_summary
get_summary(s) ==
    key_summary(s, 1)
    @@ status_summary(s, "battery_status", "battery_status")
    @@ status_summary(s, "charging_status", "charging_equipment_status")

\* ParameterReading.to_dict
reading_to_dict(p) ==
    [address |-> "0x" \o Hex04(p.address), name |-> p.name,
     description |-> p.description, raw_value |-> p.raw_value,
     formatted_value |-> p.formatted_value, unit |-> p.unit,
     category |-> p.category, timestamp |-> p.timestamp]

\* DeviceSnapshot.to_dict
to_dict(s) ==
    [timestamp |-> s.timestamp, device_info |-> s.device_info,
     parameters |-> [k \in 1..Len(s.parameters) |->
                       reading_to_dict(s.parameters[k])],
     summary |-> get_summary(s)]

\* the rows of the csv output
csv_rows(s) ==
    [k \in 1..Len(s.parameters) |->
       LET p == s.parameters[k]
       IN  <<"0x" \o Hex04(p.address), p.name, p.description,
             p.formatted_value, p.unit, p.category, p.raw_value>>]

\* the categories of the snapshot in the order of their first reading
RECURSIVE categories_of(_, _)
categories_of(parameters, seen) ==
    IF parameters = <<>> THEN <<>>
    ELSE IF parameters[1].category \in seen
    THEN categories_of(Tail(parameters), seen)
    ELSE <<parameters[1].category>>
         \o categories_of(Tail(parameters),
                          seen \cup {parameters[1].category})

\* sorted(params, key=lambda x: x.address): a stable insertion sort
RECURSIVE sorted_by_address(_)
sorted_by_address(params) ==
    IF params = <<>> THEN <<>>
    ELSE LET rest == sorted_by_address(SubSeq(params, 1, Len(params) - 1))
             p == params[Len(params)]
         IN  SelectSeq(rest, LAMBDA q : q.address <= p.address)
             \o <<p>>
             \o SelectSeq(rest, LAMBDA q : q.address > p.address)

category_order == <<"pv", "battery", "load", "system", "statistics", "config">>

\* _format_human_readable: the categories of category_order that occur,
\* then the others, each with its readings by address
format_human_readable(s) ==
    LET present == categories_of(s.parameters, {})
        first == SelectSeq(category_order,
                           LAMBDA c : \E k \in 1..Len(present) : present[k] = c)
        others == SelectSeq(present,
                            LAMBDA c : \A k \in 1..Len(category_order) :
                                         category_order[k] # c)
        shown == first \o others
    IN  [timestamp |-> s.timestamp,
         blocks |-> [k \in 1..Len(shown) |->
                      <<shown[k],
                        sorted_by_address(get_by_category(s, shown[k]))>>]]

\* DeviceDataManager.format_for_output
format_for_output(s, output_format) ==
    IF output_format = "json" THEN [format |-> "json", data |-> to_dict(s)]
    ELSE IF output_format = "csv"
    THEN [format |-> "csv", data |-> csv_rows(s)]
    ELSE [format |-> "human", data |-> format_human_readable(s)]

---------------------------------------------------------------------------
(* Specification SpecSnapshot: one run of a reading command of             *)
(* src/src/main.py (read-all, read, monitor, export).  The reading phase   *)
(* of a command is given by its result, the two dicts of register values   *)
(* the device answered with; the connection phase by its outcome.          *)

MaxReads == 2            \* register values read in one reading phase
MaxClock == 1            \* readings of the clock after the first
MaxCycles == 2           \* monitor: --count, and the turns of a run without it

\* register values the device may answer with, and the bank they are in
InputReads ==
    { <<12544, 2456>>, <<12570, 87>>, <<12800, 5>>, <<12801, 2>>,
      <<13072, 7>> }
HoldingReads == { <<36864, 4>>, <<36880, 65535>> }

\* dicts: items with distinct keys
Dicts(S, n) ==
    { q \in SeqsUpTo(S, n) :
        \A i, j \in 1..Len(q) : i # j => q[i][1] # q[j][1] }

Devices ==
    { d \in [charging_name : ChargingNames,
             input : Dicts(InputReads, MaxReads),
             holding : Dicts(HoldingReads, MaxReads)] :
        Len(d.input) + Len(d.holding) <= MaxReads }

NoCategory == ""
Formats == {"human", "json", "csv"}
Categories == {NoCategory, "config", "battery"}

ReadingCommandLines ==
    [command : {"read-all"}, format : Formats, category : Categories]
    \cup [command : {"read"}, format : Formats]
    \cup [command : {"monitor"}, format : Formats, category : Categories,
          count : {None} \cup { Some(n) : n \in 1..MaxCycles }]
    \cup [command : {"export"}, include_config : BOOLEAN]

InitSnapshot ==
    /\ fn = {}
    /\ arg \in Devices
    /\ ret = NoRet
    /\ client = "cli"
    /\ slave_id = 1
    /\ conn = "none"
    /\ pc = "idle"
    /\ op = NoOp
    /\ cmd = <<>>
    /\ tx = <<>>
    /\ in_buf = <<>>
    /\ unanswered = 0
    /\ response = <<>>
    /\ parsed = None
    /\ result = NoResult
    /\ printed = <<>>
    /\ steps = <<>>
    /\ delay_ms = 0
    /\ caught = "none"
    /\ cli_pc = "start"
    /\ args \in ReadingCommandLines
    /\ handles = 0
    /\ wire = <<>>
    /\ idx = 0
    /\ success_count = 0
    /\ failed_params = <<>>
    /\ skipped_params = <<>>
    /\ acked = <<>>
    /\ verify_raw = None
    /\ exit_code = None
    /\ pauses = <<>>
    /\ now = 0
    /\ snapshot = None
    /\ assembled = <<>>
    /\ output = None
    /\ jobs = <<>>
    /\ line = <<>>

\* what a reading command leaves alone
readVars == <<fn, arg, ret, client, slave_id, pc, op, cmd, tx, in_buf,
              unanswered, response, parsed, result, steps, delay_ms, caught,
              args, wire, success_count, failed_params, skipped_params,
              acked, verify_raw, pauses, haVars>>

\* n readings of a clock that does not go back, from now on
Clocks(n) ==
    { c \in [1..n -> now..MaxClock] :
        \A i \in 1..n : i < n => c[i] <= c[i + 1] }

\* a call of create_device_snapshot as it is recorded
Assembly(register_data, holding_data, s) ==
    [register_data |-> register_data, holding_data |-> holding_data,
     result |-> s]

\* _read_all_efficient(category_filter): the blocks of the other bank are
\* skipped under a filter, and a snapshot is made when anything was read
ReadAll(category_filter) ==
    LET register_data == IF category_filter = "config" THEN <<>>
                         ELSE arg.input
        holding_data == IF category_filter \in {NoCategory, "config"}
                        THEN arg.holding ELSE <<>>
        n == Len(register_data) + Len(holding_data)
    IN  IF n = 0
        THEN { [snapshot |-> None, calls |-> <<>>, now |-> now] }
        ELSE { LET s == create_device_snapshot(
                          all_parameters(arg.charging_name),
                          Len(assembled) + 1, register_data, holding_data, c)
               IN  [snapshot |-> Some(s),
                    calls |-> <<Assembly(register_data, holding_data, s)>>,
                    now |-> c[n + 1]] : c \in Clocks(n + 1) }

\* connect_device and "with self.client:": the port opens and the device
\* answers, or the command returns 1
open_device ==
    /\ cli_pc = "start"
    /\ \/ /\ ReturnOutside(1)
          /\ printed' = Append(printed, "Failed to connect")
       \/ /\ cli_pc' = "entered"
          /\ exit_code' = exit_code
          /\ conn' = "open"
          /\ handles' = handles + 1
          /\ printed' = Append(printed, "Connected")
    /\ UNCHANGED <<readVars, idx, dataVars>>

\* cmd_read_all and cmd_read up to the snapshot
read_snapshot ==
    /\ cli_pc = "entered"
    /\ Command \in {"read-all", "read"}
    /\ \E o \in ReadAll(IF Command = "read" THEN NoCategory
                        ELSE args.category) :
         /\ snapshot' = o.snapshot
         /\ assembled' = assembled \o o.calls
         /\ now' = o.now
         /\ IF o.snapshot # None
            THEN /\ Goes("assembled")
                 /\ printed' = printed
            ELSE /\ ReturnFromWith(1)
                 /\ printed' = Append(printed, "Failed to read device data")
    /\ UNCHANGED <<readVars, idx, output>>

\* cmd_read_all and cmd_read: format_for_output, _write_output, return 0
write_output ==
    /\ cli_pc = "assembled"
    /\ Command \in {"read-all", "read"}
    /\ output' = Some(format_for_output(The(snapshot), args.format))
    /\ ReturnFromWith(0)
    /\ UNCHANGED <<readVars, idx, printed, now, snapshot, assembled>>

\* cmd_monitor: "snapshot = self._read_all_efficient(args.category)", which
\* prints its first line and reads the blocks.  A run without --count is
\* followed for MaxCycles turns.
monitor_read ==
    /\ cli_pc = "entered"
    /\ Command = "monitor"
    /\ IsNone(args.count) => idx < MaxCycles
    /\ \E o \in ReadAll(args.category) :
         /\ snapshot' = o.snapshot
         /\ assembled' = assembled \o o.calls
         /\ now' = o.now
    /\ printed' = Append(printed, "Reading device data")
    /\ Goes("polled")
    /\ UNCHANGED <<readVars, idx, output>>

\* monitor_show counting only the turns that produced a snapshot
monitor_show_counts_shown ==
    /\ cli_pc = "polled"
    /\ output' = IF snapshot # None
                 THEN Some(format_for_output(The(snapshot), args.format))
                 ELSE output
    /\ idx' = IF snapshot # None THEN idx + 1 ELSE idx
    /\ IF ~IsNone(args.count) /\ The(args.count) # 0 /\ snapshot # None
          /\ idx + 1 >= The(args.count)
       THEN /\ ReturnFromWith(0)
            /\ now' = now
       ELSE /\ Goes("entered")
            /\ now' \in now..MaxClock
    /\ UNCHANGED <<readVars, printed, snapshot, assembled>>

\* cmd_monitor: the snapshot is shown, the turn is counted and the loop
\* sleeps or ends
monitor_show ==
    /\ cli_pc = "polled"
    /\ output' = IF snapshot # None
                 THEN Some(format_for_output(The(snapshot), args.format))
                 ELSE output
    /\ idx' = idx + 1
    /\ IF ~IsNone(args.count) /\ The(args.count) # 0
          /\ idx + 1 >= The(args.count)
       THEN /\ ReturnFromWith(0)
            /\ now' = now
       ELSE /\ Goes("entered")
            /\ now' \in now..MaxClock
    /\ UNCHANGED <<readVars, printed, snapshot, assembled>>

\* cmd_monitor: Ctrl+C during a turn
monitor_interrupt ==
    /\ cli_pc \in {"entered", "polled"}
    /\ Command = "monitor"
    /\ ReturnFromWith(0)
    /\ printed' = Append(printed, "Monitoring stopped by user")
    /\ UNCHANGED <<readVars, idx, dataVars>>

\* cmd_export: "snapshot = self._read_all_efficient()"
export_read ==
    /\ cli_pc = "entered"
    /\ Command = "export"
    /\ \E o \in ReadAll(NoCategory) :
         /\ snapshot' = o.snapshot
         /\ assembled' = assembled \o o.calls
         /\ now' = o.now
    /\ Goes("read")
    /\ UNCHANGED <<readVars, idx, printed, output>>

\* cmd_export with --include-config: the configuration is read again and
\* "snapshot.parameters.extend(config_snapshot.parameters)"; with no
\* snapshot the extend raises AttributeError and the command returns 1
export_include_config ==
    /\ cli_pc = "read"
    /\ args.include_config
    /\ \E o \in ReadAll("config") :
         /\ assembled' = assembled \o o.calls
         /\ now' = o.now
         /\ IF o.snapshot = None
            THEN /\ snapshot' = snapshot
                 /\ Goes("included")
                 /\ printed' = printed
            ELSE IF snapshot = None
            THEN /\ snapshot' = snapshot
                 /\ ReturnFromWith(1)
                 /\ printed' = Append(printed, "Export failed")
            ELSE /\ snapshot' =
                      Some([The(snapshot) EXCEPT !.parameters =
                              @ \o The(o.snapshot).parameters])
                 /\ Goes("included")
                 /\ printed' = printed
    /\ UNCHANGED <<readVars, idx, output>>

\* cmd_export: the export document is written, or nothing was read
export_write ==
    /\ \/ cli_pc = "read" /\ Command = "export" /\ ~args.include_config
       \/ cli_pc = "included"
    /\ IF snapshot # None
       THEN \E t \in now..MaxClock :
              /\ output' = Some([format |-> "export",
                                 export_timestamp |-> t,
                                 device_info |-> The(snapshot).device_info,
                                 data |-> to_dict(The(snapshot))])
              /\ now' = t
              /\ ReturnFromWith(0)
              /\ printed' = Append(printed, "Data exported")
       ELSE /\ output' = output
            /\ now' = now
            /\ ReturnFromWith(1)
            /\ printed' = Append(printed, "Failed to read device data")
    /\ UNCHANGED <<readVars, idx, snapshot, assembled>>

NextSnapshot ==
    \/ open_device
    \/ read_snapshot
    \/ write_output
    \/ monitor_read
    \/ monitor_show
    \/ monitor_interrupt
    \/ export_read
    \/ export_include_config
    \/ export_write

SpecSnapshot == InitSnapshot /\ [][NextSnapshot]_vars

---------------------------------------------------------------------------
(* Claims about snapshots (specification SpecSnapshot).                    *)

\* the items of both dicts of an assembly, input registers first
RawReads(a) ==
    [k \in 1..(Len(a.register_data) + Len(a.holding_data)) |->
       IF k <= Len(a.register_data)
       THEN [address |-> a.register_data[k][1],
             value |-> a.register_data[k][2], is_holding |-> FALSE]
       ELSE [address |-> a.holding_data[k - Len(a.register_data)][1],
             value |-> a.holding_data[k - Len(a.register_data)][2],
             is_holding |-> TRUE]]

\* the register table has a definition for the read r
Matched(r) ==
    \E k \in 1..Len(all_parameters(arg.charging_name)) :
      /\ all_parameters(arg.charging_name)[k].address = r.address
      /\ all_parameters(arg.charging_name)[k].is_holding = r.is_holding

\* C22: a snapshot holds exactly one reading for every (address, value)
\* entry of the input-register reads and of the holding-register reads,
\* in their order, and the reading of an address without a register
\* definition has category "unknown" and the raw value as its value.
C22_SnapshotDropsNothing ==
    \A i \in 1..Len(assembled) :
      LET raw == RawReads(assembled[i])
          parameters == assembled[i].result.parameters
      IN  /\ Len(parameters) = Len(raw)
          /\ \A k \in 1..Len(raw) :
               /\ parameters[k].address = raw[k].address
               /\ parameters[k].raw_value = raw[k].value
               /\ ~Matched(raw[k])
                    => /\ parameters[k].category = "unknown"
                       /\ parameters[k].formatted_value.type = "int"
                       /\ parameters[k].formatted_value.whole = raw[k].value
                       /\ parameters[k].formatted_value.hundredths = 0

\* C22 witness: a snapshot was made of a register with a definition and
\* of register 0x3310, which has none.
C22_Witness ==
    /\ assembled # <<>>
    /\ assembled[1].register_data = << <<12544, 2456>>, <<13072, 7>> >>
    /\ Len(assembled[1].result.parameters) = 2
    /\ assembled[1].result.parameters[2].name = "unknown_0x3310"
    /\ assembled[1].result.parameters[2].category = "unknown"

SummaryNames ==
    {"pv_voltage", "pv_current", "battery_voltage", "battery_current",
     "load_voltage", "load_current", "battery_soc", "battery_temp",
     "battery_status", "charging_status"}

\* a command returned after it computed the summary view of the snapshot
\* it holds
SummaryShown ==
    /\ cli_pc = "returned"
    /\ snapshot # None /\ output # None
    /\ The(output).format \in {"json", "export"}
    /\ Command = "monitor" => Last(printed) # "Monitoring stopped by user"

Summary == The(output).data.summary

HasName(name) ==
    \E k \in 1..Len(The(snapshot).parameters) :
      The(snapshot).parameters[k].name = name

\* C23 (as claimed): the summary has an entry for a name exactly when the
\* name is one of the ten and a parameter of that name is in the
\* snapshot; no other key appears.
C23_AsClaimed ==
    SummaryShown
      => /\ DOMAIN Summary \subseteq SummaryNames
         /\ \A name \in SummaryNames :
              name \in DOMAIN Summary <=> HasName(name)

\* C23: the summary has an entry for one of pv_voltage, pv_current,
\* battery_voltage, battery_current, load_voltage, load_current,
\* battery_soc, battery_temp, battery_status exactly when a parameter of
\* that name is in the snapshot, and the entry charging_status exactly
\* when a parameter named charging_equipment_status is; no other key
\* appears.
C23_SummaryView ==
    SummaryShown
      => /\ DOMAIN Summary \subseteq SummaryNames
         /\ \A name \in SummaryNames \ {"charging_status"} :
              name \in DOMAIN Summary <=> HasName(name)
         /\ "charging_status" \in DOMAIN Summary
              <=> HasName("charging_equipment_status")

\* C23 witness: a summary was computed of a snapshot that holds the
\* charging equipment status, a parameter outside the list and none of
\* the absent names.
C23_Witness ==
    /\ SummaryShown
    /\ HasName("charging_equipment_status") /\ HasName("battery_type")
    /\ DOMAIN Summary = {"charging_status"}


\* the readings r and q agree in every field but the timestamp
SameButTimestamp(r, q) ==
    [r EXCEPT !.timestamp = 0] = [q EXCEPT !.timestamp = 0]

SameRawReads(a, b) ==
    /\ a.register_data = b.register_data
    /\ a.holding_data = b.holding_data

C30_SnapshotNeverMutated ==
    snapshot # None
      => The(snapshot) = assembled[The(snapshot).id].result

---------------------------------------------------------------------------
(* Claims C25, C26: what the clients accept as a response.                 *)

\* C25: a write (write_single_register, write_multiple_registers) whose
\* read returned at least 5 bytes with the high bit of the function-code
\* byte clear returns True, whatever the slave id, the function code and
\* the bytes after it; it returns False when the read returned nothing,
\* fewer than 5 bytes or an exception response.
C25_WriteAcceptsAnyResponse ==
    (ReadReturned /\ IsWrite)
      => /\ (Len(response) >= 5 /\ BitAnd(response[2], 128) = 0)
              => result = RBool(TRUE)
         /\ (Len(response) < 5 \/ IsErrorResponse(response))
              => result = RBool(FALSE)

\* C25 witness: a write_single_register of slave 1 returned True on the
\* read response of slave 2.
C25_Witness ==
    /\ ReadReturned /\ op.name = "write_single_register" /\ slave_id = 1
    /\ response = <<2, 4, 2, 9, 152, 190, 202>>
    /\ result = RBool(TRUE)

\* a read response whose byte count covers exactly the bytes between it
\* and the two CRC bytes
IsExactReadResponse(r) == IsReadResponse(r) /\ r[3] = Len(r) - 5

\* r with its last two bytes replaced
WithTrailer(r, hi, lo) == SubSeq(r, 1, Len(r) - 2) \o <<hi, lo>>

TrailerSamples == {0, 9, 190, 202, 255}

\* C26: neither parser looks at the CRC: a read response whose byte count
\* covers exactly its data bytes parses to the same result whatever its
\* two trailing bytes are, so with a wrong CRC its registers are returned
\* all the same.
C26_CrcNotVerified ==
    \A hi, lo \in TrailerSamples :
      /\ (Applied("parse_modbus_response") /\ IsExactReadResponse(arg.data))
           => /\ parse_modbus_response(WithTrailer(arg.data, hi, lo))
                   = ret["parse_modbus_response"]
              /\ ~IsNone(ret["parse_modbus_response"])
              /\ "registers" \in DOMAIN The(ret["parse_modbus_response"])
      /\ (Applied("HA_parse_modbus_response")
            /\ IsExactReadResponse(arg.data))
           => /\ HA_parse_modbus_response(WithTrailer(arg.data, hi, lo))
                   = ret["HA_parse_modbus_response"]
              /\ ~IsNone(ret["HA_parse_modbus_response"])
              /\ "registers" \in DOMAIN The(ret["HA_parse_modbus_response"])

\* C26 witness: 01 04 02 09 98 FF FF, whose CRC would be BE CA, was parsed
\* by both clients into the register 2456.
C26_Witness ==
    /\ Applied("parse_modbus_response") /\ Applied("HA_parse_modbus_response")
    /\ arg.data = <<1, 4, 2, 9, 152, 255, 255>>
    /\ The(ret["parse_modbus_response"]).registers = <<2456>>
    /\ The(ret["HA_parse_modbus_response"]).registers = <<2456>>

---------------------------------------------------------------------------
(* Claim C27: one request and one read per call.                           *)

\* how often the serial call or sleep named name occurs in the step log q
Occurrences(q, name) == Cardinality({ k \in 1..Len(q) : q[k] = name })

\* C27: a read or write call of either client writes at most one request
\* frame and reads the response at most once, whatever it ends with (an
\* empty response, a short frame, an exception response, an exception of
\* the serial port); the frame it wrote is the request it built.
C27_NoRetry ==
    /\ Len(tx) <= 1
    /\ Occurrences(steps, "write") = Len(tx)
    /\ Occurrences(steps, "read") <= 1
    /\ Occurrences(steps, "read") = 1 => pc = "done" /\ Len(tx) = 1
    /\ pc = "done" /\ tx # <<>> => tx = <<cmd>>

\* C27 witness: a read call ended on an empty response after one request
\* and one read.
C27_Witness ==
    /\ pc = "done" /\ IsRead
    /\ response = <<>> /\ result = RNone
    /\ Len(tx) = 1
    /\ steps = <<"reset_input_buffer", "write", "sleep", "read">>

---------------------------------------------------------------------------
(* Claim C29: the verification read of the writing commands.               *)

WriteAcknowledgedLines == {"Write successful", "Success"}
WriteFailedLines == {"Write failed", "Failed"}
VerificationLines == {"Verified", "Verification failed"}

\* the delay before the verification read: 0.5 s in write, 0.2 s in the
\* two batch commands
VerifyDelay == IF Command = "write" THEN 500 ELSE 200

\* C29: in write, write-config and restore-config every verification read
\* (each prints one verification line) comes right after the line that
\* acknowledges the write of that parameter, with the fixed delay slept in
\* between; the acknowledged write frame went out before the delay and a
\* read frame that follows it asks for the register just written; a read
\* frame never comes right after a write frame without that delay; a write
\* that failed is never followed by a verification line.
C29_VerifyAfterAcknowledgedWrite ==
    /\ \A k \in 1..Len(printed) :
         printed[k] \in VerificationLines
           => /\ k > 1
              /\ printed[k - 1] \in WriteAcknowledgedLines
              /\ \E p \in 1..Len(pauses) :
                   /\ pauses[p].ms = VerifyDelay
                   /\ pauses[p].shown = k - 1
    /\ \A p \in 1..Len(pauses) :
         pauses[p].ms = VerifyDelay
           => /\ pauses[p].sent >= 1
              /\ wire[pauses[p].sent][2] = 6
              /\ printed[pauses[p].shown] \in WriteAcknowledgedLines
              /\ pauses[p].sent < Len(wire) /\ wire[pauses[p].sent + 1][2] = 3
                   => SubSeq(wire[pauses[p].sent + 1], 3, 4)
                        = SubSeq(wire[pauses[p].sent], 3, 4)
    /\ \A k \in 2..Len(wire) :
         wire[k - 1][2] = 6 /\ wire[k][2] = 3
           => \E p \in 1..Len(pauses) :
                pauses[p].ms = VerifyDelay /\ pauses[p].sent = k - 1
    /\ \A k \in 1..Len(printed) :
         printed[k] \in WriteFailedLines /\ k < Len(printed)
           => printed[k + 1] \notin VerificationLines
    /\ cli_pc \in {"acknowledged", "verify"}
         => /\ printed # <<>> /\ Last(printed) \in WriteAcknowledgedLines
            /\ wire # <<>> /\ Last(wire)[2] = 6

\* C29 witness: restore-config with one write acknowledged and verified
\* and one write failed, the failed one without a verification read.
C29_Witness ==
    /\ Command = "restore-config"
    /\ cli_pc = "returned"
    /\ \E k \in 1..Len(printed) : printed[k] \in VerificationLines
    /\ \E k \in 1..Len(printed) : printed[k] = "Failed"
    /\ \E k \in 2..Len(wire) : wire[k - 1][2] = 6 /\ wire[k][2] = 3
    /\ \E p \in 1..Len(pauses) : pauses[p].ms = 200

---------------------------------------------------------------------------
(* The Home Assistant integration on the serial line.  The coordinator's   *)
(* poll (_fetch_data) and the config flow's connection test                 *)
(* (validate_input) are handed to the executor, a pool of threads, each    *)
(* with a client of its own; a job advances one serial call at a time and  *)
(* the jobs' calls interleave freely.  line is what happens on the serial  *)
(* devices, in order.  In SpecHa the device is silent or answers every     *)
(* request with the registers asked for.                                   *)

MaxPolls == 1

HaJobs == {"poll", "test"}

\* the device of the config entry the coordinator was set up from, and the
\* devices a user may type into the config flow's form
EntryDevice == "/dev/ttyUSB0"
FormDevices == {"/dev/ttyUSB0", "/dev/ttyUSB1"}

\* _fetch_data: "realtime_blocks" with is_holding=False, then
\* "config_blocks" with is_holding=True, as <<function code, address,
\* count>>
realtime_blocks == << <<4, 12544, 16>>, <<4, 12560, 16>>, <<4, 12800, 3>>,
                      <<4, 13056, 31>> >>
config_blocks == << <<3, 36864, 8>>, <<3, 36872, 8>> >>

\* test_connection: "self.read_input_registers(0x3104, 1)"
test_blocks == << <<4, 12548, 1>> >>

\* a job that was not handed to the executor; data is the dict the job
\* fills, kept as the block each address was last taken from, displaced
\* the addresses whose value of an earlier block a later block replaced,
\* outcome what the job's awaiter got
NoJob == [pc |-> "idle", device |-> "", connected |-> FALSE, open |-> FALSE, todo |-> <<>>, data |-> <<>>, displaced |-> {}, outcome |-> "none", runs |-> 0]

\* the number of registers a response to a request for n may carry: none
\* (no response, an exception response, no data), the n asked for, or
\* one more; arg.answers is what the device on the line does
Answers(n) ==
    (IF "none" \in arg.answers THEN {0} ELSE {})
    \cup (IF "asked" \in arg.answers THEN {n} ELSE {})
    \cup (IF "more" \in arg.answers THEN {n + 1} ELSE {})

\* read_register_block for a response with k registers: "if values: return
\* {start_addr + i: values[i] for i in range(len(values))}", each value
\* kept as the block it came from
block_data(start_addr, k) == [a \in start_addr..(start_addr + k - 1) |-> start_addr]

\* "data.update(block_data)"
update(data, block) == [a \in DOMAIN data \cup DOMAIN block |-> IF a \in DOMAIN block THEN block[a] ELSE data[a]]

\* no client call and no CLI command is running
ClientFieldsIdle ==
    /\ client = "ha"
    /\ slave_id = 1
    /\ conn = "none"
    /\ pc = "idle"
    /\ op = NoOp
    /\ cmd = <<>>
    /\ tx = <<>>
    /\ in_buf = <<>>
    /\ unanswered = 0
    /\ response = <<>>
    /\ parsed = None
    /\ result = NoResult
    /\ printed = <<>>
    /\ steps = <<>>
    /\ delay_ms = 0
    /\ caught = "none"
    /\ cli_pc = "none"
    /\ args = NoArgs
    /\ handles = 0
    /\ wire = <<>>
    /\ idx = 0
    /\ success_count = 0
    /\ failed_params = <<>>
    /\ skipped_params = <<>>
    /\ acked = <<>>
    /\ verify_raw = None
    /\ exit_code = None
    /\ pauses = <<>>
    /\ now = 0
    /\ snapshot = None
    /\ assembled = <<>>
    /\ output = None

InitHa ==
    /\ fn = {}
    /\ arg \in { [kind |-> "line", answers |-> {"none"}],
                  [kind |-> "line", answers |-> {"asked"}] }
    /\ ret = NoRet
    /\ ClientFieldsIdle
    /\ jobs = [j \in HaJobs |-> NoJob]
    /\ line = <<>>

notHaVars == <<fn, arg, ret, clientVars, cliVars, dataVars>>

\* the job j goes on as the record r
Becomes(j, r) == jobs' = [jobs EXCEPT ![j] = r]

\* the event of a serial call of the job j on its device
OnLine(j, what) == [job |-> j, device |-> jobs[j].device, op |-> what]

\* _async_update_data: "await self.hass.async_add_executor_job(
\* self._fetch_data)"; the coordinator runs one refresh at a time
async_update_data ==
    /\ jobs["poll"].pc = "idle"
    /\ jobs["poll"].runs < MaxPolls
    /\ Becomes("poll", [jobs["poll"] EXCEPT
                          !.pc = "queued", !.device = EntryDevice,
                          !.todo = realtime_blocks \o config_blocks,
                          !.data = <<>>, !.displaced = {},
                          !.outcome = "none"])
    /\ UNCHANGED <<line, notHaVars>>

\* async_step_user with user input: validate_input hands test_connection
\* to the executor, before the unique id of the device is looked at
async_step_user ==
    /\ jobs["test"].pc = "idle"
    /\ jobs["test"].runs = 0
    /\ \E device \in FormDevices :
         Becomes("test", [jobs["test"] EXCEPT
                            !.pc = "queued", !.device = device,
                            !.todo = test_blocks, !.data = <<>>,
                            !.displaced = {}, !.outcome = "none"])
    /\ UNCHANGED <<line, notHaVars>>

\* "with client:" in a thread of the executor: __enter__ calls connect,
\* which opens the port or logs the exception of serial.Serial and goes
\* on without a connection; the port is not opened for exclusive use
enter(j) ==
    /\ jobs[j].pc = "queued"
    /\ \E opened \in BOOLEAN :
         Becomes(j, [jobs[j] EXCEPT !.pc = "entered", !.open = opened,
                                    !.connected = opened])
    /\ UNCHANGED <<line, notHaVars>>

\* read_registers without a connection: "return None"
read_unconnected(j) ==
    /\ jobs[j].pc = "entered"
    /\ jobs[j].todo # <<>>
    /\ ~jobs[j].open
    /\ Becomes(j, [jobs[j] EXCEPT !.todo = Tail(@)])
    /\ UNCHANGED <<line, notHaVars>>

\* read_registers up to "self.serial_conn.write(cmd)": the request frame
\* goes out, or a serial call raises, which is logged, and None is
\* returned
request(j) ==
    /\ jobs[j].pc = "entered"
    /\ jobs[j].todo # <<>>
    /\ jobs[j].open
    /\ \/ /\ Becomes(j, [jobs[j] EXCEPT !.pc = "written"])
          /\ line' = Append(line, OnLine(j, "write"))
       \/ /\ Becomes(j, [jobs[j] EXCEPT !.todo = Tail(@)])
          /\ line' = line
    /\ UNCHANGED notHaVars

\* read_registers: "time.sleep(0.05)"
wait(j) ==
    /\ jobs[j].pc = "written"
    /\ Becomes(j, [jobs[j] EXCEPT !.pc = "slept"])
    /\ UNCHANGED <<line, notHaVars>>

\* read_registers from "self.serial_conn.read(...)" on, and what its
\* caller does with the block: "if block_data: data.update(block_data)"
\* in _fetch_data, "result is not None" in test_connection
read_response(j) ==
    /\ jobs[j].pc = "slept"
    /\ \E k \in Answers(Head(jobs[j].todo)[3]) :
         LET block == block_data(Head(jobs[j].todo)[2], k)
         IN  Becomes(j, [jobs[j] EXCEPT
                           !.pc = "entered", !.todo = Tail(@),
                           !.data = update(@, block),
                           !.displaced = @ \cup (DOMAIN block
                                                   \cap DOMAIN jobs[j].data)])
    /\ line' = Append(line, OnLine(j, "read"))
    /\ UNCHANGED notHaVars

\* the end of the with block: __exit__ calls disconnect and the job
\* returns; _async_update_data returns the data to the coordinator, which
\* records a successful update, and would raise UpdateFailed only for an
\* exception out of _fetch_data
exit(j) ==
    /\ jobs[j].pc = "entered"
    /\ jobs[j].todo = <<>>
    /\ Becomes(j, [jobs[j] EXCEPT
                     !.pc = "idle", !.open = FALSE, !.runs = @ + 1,
                     !.outcome = "returned"])
    /\ UNCHANGED <<line, notHaVars>>

enter_job == \E j \in HaJobs : enter(j)
read_unconnected_job == \E j \in HaJobs : read_unconnected(j)
request_job == \E j \in HaJobs : request(j)
wait_job == \E j \in HaJobs : wait(j)
read_response_job == \E j \in HaJobs : read_response(j)
exit_job == \E j \in HaJobs : exit(j)

NextHa ==
    \/ async_update_data
    \/ async_step_user
    \/ enter_job
    \/ read_unconnected_job
    \/ request_job
    \/ wait_job
    \/ read_response_job
    \/ exit_job

SpecHa == InitHa /\ [][NextHa]_vars

\* Specification SpecPoll: the coordinator's poll alone on its device,
\* the device answering with the registers asked for, with none, or with
\* one register more.
InitPoll ==
    /\ fn = {}
    /\ arg = [kind |-> "line", answers |-> {"none", "asked", "more"}]
    /\ ret = NoRet
    /\ ClientFieldsIdle
    /\ jobs = [j \in HaJobs |-> NoJob]
    /\ line = <<>>

poll_enter == enter("poll")
poll_read_unconnected == read_unconnected("poll")
poll_request == request("poll")
poll_wait == wait("poll")
poll_read_response == read_response("poll")
poll_exit == exit("poll")

NextPoll ==
    \/ async_update_data
    \/ poll_enter
    \/ poll_read_unconnected
    \/ poll_request
    \/ poll_wait
    \/ poll_read_response
    \/ poll_exit

SpecPoll == InitPoll /\ [][NextPoll]_vars

---------------------------------------------------------------------------
(* Claim C28: one exchange at a time on a serial line.                     *)

\* the exchange that the write at place i of line began is still waiting
\* for its response read at place k
InFlightAt(i, k) ==
    /\ line[i].op = "write"
    /\ \A r \in (i + 1)..(k - 1) :
         ~(line[r].job = line[i].job /\ line[r].op = "read")

\* C28: no request frame is written to a device between the request write
\* and the response read of another job's exchange on that device.
C28_OneExchangeInFlight ==
    \A k \in 1..Len(line) :
      line[k].op = "write"
        => \A i \in 1..(k - 1) :
             ~(/\ line[i].job # line[k].job
               /\ line[i].device = line[k].device
               /\ InFlightAt(i, k))

\* the same holds of the exchanges of one job, and of two jobs on
\* different devices
ExchangesOfOneJobInTurn ==
    \A k \in 1..Len(line) :
      line[k].op = "write"
        => \A i \in 1..(k - 1) :
             line[i].job = line[k].job => ~InFlightAt(i, k)

---------------------------------------------------------------------------
(* Claim C31: a read returns registers only from the answer to its own     *)
(* request.                                                                *)

\* the read call has returned a register list that is not empty
ReadGaveRegisters ==
    /\ pc = "done" /\ IsRead
    /\ result.type = "list" /\ result.value # <<>>

\* C31: whenever read_registers returns a non-empty register list, the
\* response it was parsed from carries the client's slave id and the
\* function code of the request.
C31_ResponseAnswersRequest ==
    ReadGaveRegisters
      => /\ response[1] = slave_id
         /\ response[2] = op.fc

\* the two halves taken alone; neither holds
AnsweredBySlave == ReadGaveRegisters => response[1] = slave_id
AnsweredWithFunctionCode == ReadGaveRegisters => response[2] = op.fc

---------------------------------------------------------------------------
(* Claim C32: a block read returns the block that was asked for.           *)

\* what read_register_block gives its caller for the read that returned
BlockRead == read_register_block(op.addr, result)

\* C32: whenever read_register_block(start, count) returns a mapping, it
\* has exactly count entries, one for each address start..start+count-1.
C32_BlockAsRequested ==
    pc = "done" /\ IsRead /\ ~IsNone(BlockRead)
      => DOMAIN The(BlockRead) = op.addr..(op.addr + op.n - 1)

---------------------------------------------------------------------------
(* Claim C33: the connection test.                                         *)

\* the call that returned is the read test_connection makes:
\* read_input_registers(0x3104, 1)
TestReadReturned ==
    /\ pc = "done" /\ IsRead
    /\ op.fc = 4 /\ op.addr = 12548 /\ op.n = 1

\* C33: test_connection returns True only if the read of input register
\* 0x3104 gave at least one register value.
C33_TestNeedsRegister ==
    TestReadReturned /\ test_connection_result(result)
      => result.type = "list" /\ result.value # <<>>

\* the cases the claim lists one by one: an empty response, a short frame
\* and an exception response give False in both clients
TestFailsWithoutFrame ==
    TestReadReturned /\ ReadReturned
      /\ (Len(response) < 5 \/ IsErrorResponse(response))
      => ~test_connection_result(result)

---------------------------------------------------------------------------
(* Claim C34: a 32-bit sensor and a poll that gave one of its two words.   *)

HasHighReading == SensorConfig.high_address \in DOMAIN arg.data

\* C34: for a sensor that combines two registers, native_value is None
\* when the polled data lacks the low register or lacks the high register.
C34_BothWordsOrNone ==
    (Decoded /\ IsCombined /\ (~HasReading \/ ~HasHighReading))
      => ret["native_value"] = RNone

\* the half that holds: without the low register there is no value
NoneWithoutLowWord ==
    (Decoded /\ IsCombined /\ ~HasReading) => ret["native_value"] = RNone

\* the high register alone was polled and the sensor has no value
HighWordAlone ==
    /\ Decoded /\ arg.key = "pv_power"
    /\ arg.data = (12547 :> 1)
    /\ ret["native_value"] = RNone

---------------------------------------------------------------------------
(* Claim C35: the text "Normal" of the status sensors.                     *)

IsStatusSensor == Get(SensorConfig, "type", "linear") = "status"

\* the bits of the register value v that the sensor's table defines and
\* that are set
DefinedBitsSet(v) ==
    { d[1] : d \in { StatusTable(arg.key)[k] :
                       k \in 1..Len(StatusTable(arg.key)) } }
      \cap { b \in 0..15 : (v \div (2 ^ b)) % 2 = 1 }

\* what the sensor shows when its register reads w instead
ShownFor(w) ==
    native_value(arg.key, SensorConfig,
                 [arg.data EXCEPT ![SensorConfig.address] = w])

\* C35: a status sensor shows exactly "Normal" if and only if none of the
\* defined bits of the raw value is set, and two raw values with different
\* sets of defined bits never show the same text.
C35_NormalIffNoDefinedBit ==
    (Decoded /\ HasReading /\ IsStatusSensor)
      => /\ ret["native_value"] = RStr("Normal")
              <=> DefinedBitsSet(LowWord) = {}
         /\ \A w \in LowSamples :
              DefinedBitsSet(w) # DefinedBitsSet(LowWord)
                => ShownFor(w) # ret["native_value"]

\* the same for the two tables that have no label "Normal": it holds
NormalIffNoDefinedBitElsewhere ==
    (Decoded /\ HasReading /\ IsStatusSensor
       /\ arg.key \in {"charging_status", "load_status"})
      => /\ ret["native_value"] = RStr("Normal")
              <=> DefinedBitsSet(LowWord) = {}
         /\ \A w \in LowSamples :
              DefinedBitsSet(w) # DefinedBitsSet(LowWord)
                => ShownFor(w) # ret["native_value"]

---------------------------------------------------------------------------
(* Claim C36: the polled blocks and the sensor definitions.                *)

\* const.py SENSOR_TYPES: the address of every sensor, and the
\* high_address of those that combine two registers, as <<key, address,
\* high_address>> with the address itself for a sensor of one register
SENSOR_REGISTERS ==
    { <<"pv_voltage", 12544, 12544>>, <<"pv_current", 12545, 12545>>,
      <<"pv_power", 12546, 12547>>, <<"battery_voltage", 12548, 12548>>,
      <<"battery_current", 12549, 12549>>, <<"battery_power", 12550, 12551>>,
      <<"battery_soc", 12570, 12570>>, <<"battery_temp", 12560, 12560>>,
      <<"load_voltage", 12556, 12556>>, <<"load_current", 12557, 12557>>,
      <<"load_power", 12554, 12555>>, <<"device_temp", 12561, 12561>>,
      <<"heat_sink_temp", 12563, 12563>>, <<"battery_status", 12800, 12800>>,
      <<"charging_status", 12801, 12801>>, <<"load_status", 12802, 12802>>,
      <<"energy_generated_today", 13062, 13063>>,
      <<"energy_consumed_today", 13060, 13061>>,
      <<"energy_generated_total", 13064, 13065>>,
      <<"max_battery_voltage_today", 13058, 13058>>,
      <<"min_battery_voltage_today", 13059, 13059>>,
      <<"battery_full_charges", 13068, 13068>>,
      <<"operating_days", 13066, 13066>>, <<"battery_type", 36864, 36864>>,
      <<"battery_capacity", 36865, 36865>>, <<"float_voltage", 36872, 36872>>,
      <<"low_voltage_disconnect", 36877, 36877>> }

PolledBlocks == realtime_blocks \o config_blocks

\* the addresses the request for the block b asks for
Asked(b) == b[2]..(b[2] + b[3] - 1)

\* the polled blocks that ask for the address a
BlocksWith(a) == { k \in 1..Len(PolledBlocks) : a \in Asked(PolledBlocks[k]) }

\* the blocks are pairwise disjoint, every address and high_address of a
\* sensor is asked for by exactly one block, both words by the same one
PolledBlocksCoverSensors ==
    /\ \A k, m \in 1..Len(PolledBlocks) :
         k # m => Asked(PolledBlocks[k]) \cap Asked(PolledBlocks[m]) = {}
    /\ \A t \in SENSOR_REGISTERS :
         /\ Cardinality(BlocksWith(t[2])) = 1
         /\ BlocksWith(t[3]) = BlocksWith(t[2])

\* C36: the polled blocks are pairwise disjoint and cover every sensor
\* definition, both words of a pair in one block, and no value polled is
\* replaced by a later block of the same poll.
C36_BlocksDisjointAndCovering ==
    /\ PolledBlocksCoverSensors
    /\ jobs["poll"].displaced = {}

\* while every response carries the registers asked for or none, no value
\* is replaced
NothingDisplacedWhenAsked ==
    "more" \notin arg.answers => jobs["poll"].displaced = {}

---------------------------------------------------------------------------
(* Claim C38: a poll whose port could not be opened.                       *)

\* the poll has come back to _async_update_data
PollDone == jobs["poll"].pc = "idle" /\ jobs["poll"].runs > 0

\* C38: a poll during which the serial port could not be opened ends in
\* UpdateFailed, not in data returned to the coordinator.
C38_UnopenedPortFailsUpdate ==
    PollDone /\ ~jobs["poll"].connected
      => jobs["poll"].outcome = "UpdateFailed"

\* what such a poll does give: a successful update with an empty dict,
\* and no request on the line
UnopenedPortGivesEmptyData ==
    PollDone /\ ~jobs["poll"].connected
      => /\ jobs["poll"].outcome = "returned"
         /\ jobs["poll"].data = <<>>
         /\ line = <<>>

---------------------------------------------------------------------------
(* Claim C37: write-config validates the whole batch first.                *)

\* the batch has an entry that is not writable or fails validation
BatchHasInvalidEntry ==
    \E i \in 1..Len(Items) : IsNone(Items[i].param) \/ ~Items[i].valid

\* a write frame (function code 0x06) was sent
WriteFrameSent == \E k \in 1..Len(wire) : wire[k][2] = 6

\* C37: when at least one parameter of a write-config batch is not
\* writable or fails validation, no write frame is sent for any parameter
\* of the batch, nothing is counted as written, and the command returns 1.
C37_BatchValidatedFirst ==
    (Command = "write-config" /\ BatchHasInvalidEntry)
      => /\ ~WriteFrameSent
         /\ success_count = 0 /\ acked = <<>>
         /\ cli_pc = "returned" => exit_code = Some(1)

\* C37 witness: a batch of a valid and an invalid parameter, confirmed and
\* not a dry run, was refused at validation.
C37_Witness ==
    /\ Command = "write-config" /\ BatchHasInvalidEntry
    /\ \E i \in 1..Len(Items) : ~IsNone(Items[i].param) /\ Items[i].valid
    /\ ~args.dry_run /\ Confirmed
    /\ cli_pc = "returned"
    /\ printed # <<>> /\ Last(printed) = "Validation errors"
    /\ exit_code = Some(1)

---------------------------------------------------------------------------
(* Claim C39: the counts of restore-config.                                *)

\* restore-config went through the whole backup and printed its summary
RestoreProcessed ==
    /\ Command = "restore-config"
    /\ cli_pc = "returned"
    /\ printed # <<>> /\ Last(printed) = "Restore complete"

\* C39: when restore-config has processed the backup, restored + failed +
\* skipped equals the number of parameters in the backup, the parameters
\* counted as restored are those whose write was acknowledged, and the
\* command returns 0 if and only if at least one was restored.
C39_RestoreCounts ==
    RestoreProcessed
      => /\ success_count + Len(failed_params) + Len(skipped_params)
              = Len(Items)
         /\ success_count = Len(acked)
         /\ exit_code = Some(0) <=> success_count > 0
         /\ exit_code \in {Some(0), Some(1)}

\* while the loop runs, the entries before the current one are counted once
RestoreCountsInLoop ==
    (Command = "restore-config" /\ cli_pc = "loop")
      => success_count + Len(failed_params) + Len(skipped_params) = idx - 1

\* C39 witness: a backup of a restored and a skipped parameter returned 0.
C39_Witness ==
    /\ RestoreProcessed
    /\ Len(Items) = 2
    /\ success_count = 1 /\ Len(skipped_params) = 1
    /\ exit_code = Some(0)

\* a backup whose writes all failed returned 1
RestoreAllFailed ==
    /\ RestoreProcessed
    /\ Len(failed_params) = Len(Items)
    /\ exit_code = Some(1)

---------------------------------------------------------------------------
(* The monitor loop (specification SpecMonitor): the monitor command      *)
(* lines of SpecSnapshot.  cmd_monitor runs in one thread and every call  *)
(* it makes returns (a serial read ends at its timeout, time.sleep at     *)
(* its interval), so a turn that can go on does go on.                    *)

InitMonitor ==
    /\ InitSnapshot
    /\ args.command = "monitor"

NextMonitor ==
    \/ open_device
    \/ monitor_read
    \/ monitor_show
    \/ monitor_interrupt

\* the steps of monitor_read and of monitor_show, told apart from every
\* other step of NextMonitor by the variables below
CycleRead ==
    /\ Command = "monitor"
    /\ cli_pc = "entered"
    /\ IsNone(args.count) => idx < MaxCycles
    /\ cli_pc' = "polled"
    /\ idx' = idx
    /\ printed' = Append(printed, "Reading device data")

CycleShown ==
    /\ cli_pc = "polled"
    /\ cli_pc' \in {"entered", "returned"}
    /\ idx' \in {idx, idx + 1}
    /\ printed' = printed

SpecMonitor ==
    /\ InitMonitor
    /\ [][NextMonitor]_vars
    /\ WF_<<cli_pc, idx, printed>>(CycleRead)
    /\ WF_<<cli_pc, idx, printed>>(CycleShown)

\* the monitor loop was started: the with block was entered
LoopStarted == Command = "monitor" /\ Occurrences(printed, "Connected") > 0
\* the calls of _read_all_efficient so far
Cycles == Occurrences(printed, "Reading device data")
\* Ctrl+C ended the loop
Interrupted == Occurrences(printed, "Monitoring stopped by user") > 0

\* a read cycle starts when every cycle before it is counted, and a run
\* with --count n never starts one after the n-th; a run that returned
\* without Ctrl+C
\* had a count n, made exactly n cycles, returned 0 and closed the port
MonitorCounts ==
    LoopStarted
      => /\ cli_pc = "entered" => Cycles = idx
         /\ cli_pc = "polled" => Cycles = idx + 1
         /\ Cycles \in {idx, idx + 1}
         /\ ~IsNone(args.count) => Cycles <= The(args.count)
         /\ (Returned /\ ~Interrupted)
              => /\ ~IsNone(args.count)
                 /\ Cycles = The(args.count)
                 /\ exit_code = Some(0)
                 /\ conn = "closed"

UncountedRunGoesOn ==
    /\ LoopStarted
    /\ IsNone(args.count)
    /\ idx = MaxCycles
    /\ cli_pc = "entered"

===========================================================================
